---- MODULE Spec2Model ----
(***************************************************************************)
(* Interactive diagram engine of the knowledge-graph viewer                *)
(* (src/components/main.jsx, NokiaBusinessKnowledgeGraph): viewport        *)
(* transform, scenario player with its interval ticker, canvas pan and the *)
(* node position-edit controller with its save requests, and the node and  *)
(* relationship filters of the explorer tab.                               *)
(*                                                                         *)
(* Conventions.                                                            *)
(*  - A nullable JS value is a set with at most one element: {} is null,   *)
(*    {v} is the value v.                                                  *)
(*  - A JS object used as a map (positions) is a function whose DOMAIN is  *)
(*    the set of keys present; positions[n] is undefined iff n is not in   *)
(*    the DOMAIN.                                                          *)
(*  - Numbers are fixed point: scale is kept in hundredths (0.45 is 45),   *)
(*    products and quotients with the scale are rounded down.              *)
(*  - One action is one event handler together with the re-render and the  *)
(*    effect run it causes (React flushes both before the next event).     *)
(*  - lastCmd, lastSys, ticks, session and used are history variables:     *)
(*    they record what happened and never influence the program state.     *)
(***************************************************************************)
EXTENDS Integers, Sequences, FiniteSets, TLC

VARIABLES
    positions,               \* useState positions: node id -> {x, y}
    serverPositions,         \* the positions held by the data service
    transform,               \* useState transform {x, y, scale}
    isDragging,              \* useState isDragging (canvas pan session)
    dragStart,               \* useState dragStart
    activeScenario,          \* useState activeScenario (null or a scenario object)
    animationStep,           \* useState animationStep
    isAnimating,             \* useState isAnimating
    ticker,                  \* the live setInterval of the animation effect, with its closure
    rafQueue,                \* callbacks handed to requestAnimationFrame, not yet run
    selectedNode,            \* useState selectedNode
    editingPositionNode,     \* useState editingPositionNode
    editingPositionOriginal, \* useState editingPositionOriginal
    nodeDragStart,           \* useState nodeDragStart
    inflight,                \* position PUT requests awaiting their response
    toast,                   \* useState toast
    mounted,                 \* the component is mounted
    nodes,                   \* useState nodes: node id -> node object
    relationships,           \* useState relationships: list of {from, to}
    selectedModule,          \* useState selectedModule
    searchTerm,              \* useState searchTerm (a string: a sequence of characters)
    showRelationships,       \* useState showRelationships
    nodeModal,               \* useState nodeModal with the form state of NodeFormModal
    requests,                \* node POST / PUT requests awaiting their response
    serverNodes,             \* the nodes held by the data service
    unreloaded,              \* history: a mutation succeeded and no reload followed yet
    journeys,                \* useState scenarioJourneys: the journeys of the loaded snapshot
    loading,                 \* useState loading
    apiError,                \* useState apiError
    hoveredNode,             \* useState hoveredNode
    serverJourneys,          \* the journeys held by the data service
    deletes,                 \* journey DELETE requests awaiting their response
    defaultModules,          \* useState defaultModules (the keys of the module map)
    relColors,               \* useState relColors (the keys of the colour map)
    lastCmd,                 \* history: the last user command
    lastSys,                 \* history: the last timer/frame/response event since lastCmd
    ticks,                   \* history: interval ticks fired since lastCmd
    session,                 \* history: the position-edit session opened last
    used                     \* history: how often the budgeted operations were used

vars == <<positions, serverPositions, transform, isDragging, dragStart,
          activeScenario, animationStep, isAnimating, ticker, rafQueue,
          selectedNode, editingPositionNode, editingPositionOriginal,
          nodeDragStart, inflight, toast, mounted,
          nodes, relationships, selectedModule, searchTerm, showRelationships,
          nodeModal, requests, serverNodes, unreloaded,
          journeys, loading, apiError, hoveredNode, serverJourneys, deletes,
          defaultModules, relColors,
          lastCmd, lastSys, ticks, session, used>>

viewVars == <<transform, isDragging, dragStart>>
playerVars == <<activeScenario, animationStep, isAnimating>>
editVars == <<editingPositionNode, editingPositionOriginal, nodeDragStart>>
filterVars == <<nodes, relationships, selectedModule, searchTerm, showRelationships>>
crudVars == <<nodeModal, requests, serverNodes, unreloaded>>
pageVars == <<journeys, loading, apiError, hoveredNode, serverJourneys, deletes,
              defaultModules, relColors>>

----------------------------------------------------------------------------
(* Bounds of the model *)

MaxZoomOps == 1
MaxPans == 1
MaxNodeDrags == 1
MaxInflight == 1
MaxRafPending == 1
MaxNodeRequests == 1
MaxNodeSaves == 1
MaxJourneyDeletes == 1

----------------------------------------------------------------------------
(* Program constants, scale in hundredths *)

MinScale == 15
MaxScale == 200
DefaultScale == 45
DefaultX == 50
DefaultY == 50
AnchorX == 500
AnchorY == 350

DefaultTransform == [x |-> DefaultX, y |-> DefaultY, scale |-> DefaultScale]

Min(a, b) == IF a < b THEN a ELSE b
Max(a, b) == IF a > b THEN a ELSE b

None == {}
Some(v) == {v}
The(o) == CHOOSE v \in o : TRUE

----------------------------------------------------------------------------
(* The graph snapshot the component works on *)

NodeIds == {"A", "B", "C"}

\* nodeType of each node: it decides the tag of the shape element drawn
NodeType(n) == IF n = "B" THEN "kpi" ELSE IF n = "C" THEN "decision" ELSE "core"

Pt(px, py) == [x |-> px, y |-> py]

\* positions as loaded: C has no position entry
LoadedPositions == [n \in {"A", "B"} |-> IF n = "A" THEN Pt(100, 200) ELSE Pt(300, 100)]

\* positions with the positioned path nodes at the world origin: a recentre then
\* gives the same translation at every scale
OriginPositions == [n \in {"A", "B"} |-> Pt(0, 0)]

\* a journey: its path and one data-flow entry {step, from, to} per hop of the path
DataFlow(p) == [k \in 1..(Len(p) - 1) |-> [step |-> k, from |-> p[k], to |-> p[k + 1]]]

Scenario(i, p) == [id |-> i, path |-> p, dataFlow |-> DataFlow(p)]

scenarioJourneys == { Scenario("S1", <<"A", "B">>),
                      Scenario("S2", <<"B", "C", "B">>),
                      Scenario("S3", <<"A">>),
                      Scenario("S4", <<"A", "B", "C">>) }

\* the journeys with one more that has an empty path (the journey form asks for
\* a key and a name only)
PlayerJourneys == scenarioJourneys \cup {Scenario("S0", <<>>)}

\* one entry of a journey's dataFlow list
Flow(s, f, t) == [step |-> s, from |-> f, to |-> t]

\* journeys as the server may return them: the dataFlow list can be missing,
\* shorter or longer than the path, or numbered differently from the steps
FlowJourneys == { Scenario("S4", <<"A", "B", "C">>),
                  Scenario("F1", <<"C", "A">>),
                  [id |-> "F2", path |-> <<"A", "B", "C">>],
                  [id |-> "F3", path |-> <<"A", "B", "C">>,
                   dataFlow |-> <<Flow(1, "A", "B")>>],
                  [id |-> "F4", path |-> <<"A", "B">>,
                   dataFlow |-> <<Flow(1, "A", "B"), Flow(2, "B", "C"), Flow(3, "C", "A")>>],
                  [id |-> "F5", path |-> <<"A", "B", "C">>,
                   dataFlow |-> <<Flow(5, "A", "B"), Flow(2, "B", "C"), Flow(2, "C", "A")>>] }

\* the screen points pointer events arrive at
Points == {Pt(0, 0), Pt(180, 90)}

\* a node object; definition is a string or missing
Node(i, m, d) == [id |-> i, module |-> m, definition |-> d]

\* the nodes of the loaded snapshot, keyed by id
LoadedNodes == [n \in NodeIds |->
                  IF n = "A" THEN Node("A", "m1", Some(<<"x", "B">>))
                  ELSE IF n = "B" THEN Node("B", "m2", None)
                  ELSE Node("C", "m1", Some(<<"c", "a">>))]

Rel(f, t) == [from |-> f, to |-> t]

\* the relationships of the loaded snapshot; the last one points at a node that does not exist
LoadedRelationships == <<Rel("A", "B"), Rel("B", "C"), Rel("C", "A"), Rel("A", "Z")>>

\* a snapshot with three relationships between A and B, in both directions
ParallelRelationships == <<Rel("A", "B"), Rel("B", "A"), Rel("A", "B"), Rel("B", "C")>>

\* the values of the module selector and the texts typed into the search box
Modules == {"all", "m1", "m2"}

\* the fallbacks of the module map and of the colour map, and the colour map as loaded
FALLBACK_MODULES == {"all"}
FALLBACK_REL_COLORS == {"default"}
LoadedRelColors == {"default", "uses"}
Terms == {<<>>, <<"a">>, <<"B">>, <<"X", "b">>, <<"z">>}

----------------------------------------------------------------------------
(* History bookkeeping *)

CmdArg(name, a) == lastCmd' = [op |-> name, arg |-> a] /\ lastSys' = "none" /\ ticks' = 0
Cmd(name) == CmdArg(name, "")
Sys(name) == lastSys' = name /\ UNCHANGED lastCmd

----------------------------------------------------------------------------
(* Fixed-point arithmetic with the scale *)

\* v * scale, scale in hundredths
TimesScale(v, sc) == (v * sc) \div 100
\* v / scale
OverScale(v, sc) == (v * 100) \div sc

\* Math.max(0.15, Math.min(2, scale * delta)), delta = num/10
ClampNoUpperMut(sc) == Max(MinScale, sc)

Clamp(sc) == Max(MinScale, Min(MaxScale, sc))

WheelScale(sc, deltaY) == Clamp(IF deltaY > 0 THEN (sc * 9) \div 10 ELSE (sc * 11) \div 10)
ZoomInScale(sc) == Min(MaxScale, (sc * 12) \div 10)
ZoomOutScale(sc) == Max(MinScale, (sc * 10) \div 12)

\* the translation that puts world point pos at the fixed screen anchor
RecentreDefaultScaleMut(t, pos) == [x |-> AnchorX - TimesScale(pos.x, t.scale),
                                    y |-> AnchorY - TimesScale(pos.y, t.scale),
                                    scale |-> DefaultScale]

Recentre(t, pos) == [x |-> AnchorX - TimesScale(pos.x, t.scale),
                     y |-> AnchorY - TimesScale(pos.y, t.scale),
                     scale |-> t.scale]

RECURSIVE RunFrames(_, _)
\* the queued frame callbacks, applied in the order they were requested
RunFrames(t, q) == IF q = <<>> THEN t ELSE RunFrames(Recentre(t, Head(q)), Tail(q))

----------------------------------------------------------------------------
(* The animation effect: useEffect(..., [isAnimating, activeScenario, positions]) *)

Deps == <<isAnimating, activeScenario, positions>>

\* the interval left after an effect run: tk is the interval live before it
AnimationEffectNoCleanupMut(tk, old, new) ==
    IF old = new THEN tk
    ELSE IF new[1] /\ new[2] # None
         THEN Some([scenario |-> The(new[2]), positions |-> new[3]])
         ELSE tk

\* an effect that leaves a running interval in place when it runs again
AnimationEffectKeepsIntervalMut(tk, old, new) ==
    IF old = new THEN tk
    ELSE IF new[1] /\ new[2] # None
         THEN IF tk # None THEN tk ELSE Some([scenario |-> The(new[2]), positions |-> new[3]])
         ELSE None

AnimationEffect(tk, old, new) ==
    IF old = new THEN tk
    ELSE IF new[1] /\ new[2] # None
         THEN Some([scenario |-> The(new[2]), positions |-> new[3]])
         ELSE None

Effect(tk) == ticker' = AnimationEffect(tk, Deps, Deps')

----------------------------------------------------------------------------
(* Initial state: the component as constructed, graph snapshot loaded *)

InitSnapshot(pos, sc, nds, rels, js) ==
    /\ positions = pos
    /\ serverPositions = pos
    /\ transform = [DefaultTransform EXCEPT !.scale = sc]
    /\ isDragging = FALSE
    /\ dragStart = Pt(0, 0)
    /\ activeScenario = None
    /\ animationStep = -1
    /\ isAnimating = FALSE
    /\ ticker = None
    /\ rafQueue = <<>>
    /\ selectedNode = None
    /\ editingPositionNode = None
    /\ editingPositionOriginal = None
    /\ nodeDragStart = None
    /\ inflight = <<>>
    /\ toast = None
    /\ mounted = TRUE
    /\ nodes = nds
    /\ relationships = rels
    /\ selectedModule = "all"
    /\ searchTerm = <<>>
    /\ showRelationships = TRUE
    /\ nodeModal = None
    /\ requests = <<>>
    /\ serverNodes = nds
    /\ unreloaded = FALSE
    /\ journeys = js
    /\ loading = FALSE
    /\ apiError = None
    /\ hoveredNode = None
    /\ serverJourneys = js
    /\ deletes = <<>>
    /\ defaultModules = Modules
    /\ relColors = LoadedRelColors
    /\ lastCmd = [op |-> "mount", arg |-> ""]
    /\ lastSys = "none"
    /\ ticks = 0
    /\ session = [node |-> "", pre |-> None, clean |-> FALSE, moved |-> FALSE, phase |-> "none"]
    /\ used = [zoom |-> 0, pan |-> 0, drag |-> 0, save |-> 0]

InitGraph(pos, sc, nds, rels) == InitSnapshot(pos, sc, nds, rels, scenarioJourneys)

InitWith(pos, sc) == InitGraph(pos, sc, LoadedNodes, LoadedRelationships)

Init == InitWith(LoadedPositions, DefaultScale)
InitOrigin == InitWith(OriginPositions, DefaultScale)

\* the snapshot loaded and the view zoomed to one of the scales the zoom controls reach
InitZoomed == \E sc \in {MinScale, DefaultScale, MaxScale} : InitWith(LoadedPositions, sc)

\* the component as constructed, before the first answer of loadData: the
\* snapshot is empty and the loading screen is shown
InitMount ==
    /\ positions = <<>>
    /\ serverPositions = LoadedPositions
    /\ transform = DefaultTransform
    /\ isDragging = FALSE
    /\ dragStart = Pt(0, 0)
    /\ activeScenario = None
    /\ animationStep = -1
    /\ isAnimating = FALSE
    /\ ticker = None
    /\ rafQueue = <<>>
    /\ selectedNode = None
    /\ editingPositionNode = None
    /\ editingPositionOriginal = None
    /\ nodeDragStart = None
    /\ inflight = <<>>
    /\ toast = None
    /\ mounted = TRUE
    /\ nodes = <<>>
    /\ relationships = <<>>
    /\ selectedModule = "all"
    /\ searchTerm = <<>>
    /\ showRelationships = TRUE
    /\ nodeModal = None
    /\ requests = <<>>
    /\ serverNodes = LoadedNodes
    /\ unreloaded = FALSE
    /\ journeys = {}
    /\ loading = TRUE
    /\ apiError = None
    /\ hoveredNode = None
    /\ serverJourneys = scenarioJourneys
    /\ deletes = <<>>
    /\ defaultModules = FALLBACK_MODULES
    /\ relColors = FALLBACK_REL_COLORS
    /\ lastCmd = [op |-> "mount", arg |-> ""]
    /\ lastSys = "none"
    /\ ticks = 0
    /\ session = [node |-> "", pre |-> None, clean |-> FALSE, moved |-> FALSE, phase |-> "none"]
    /\ used = [zoom |-> 0, pan |-> 0, drag |-> 0, save |-> 0]

\* the snapshot with the journeys of the player
InitPlayer ==
    InitSnapshot(LoadedPositions, DefaultScale, LoadedNodes, LoadedRelationships, PlayerJourneys)

\* snapshots with all nodes, without node C, and with no node at all; with and
\* without relationships
InitFilter ==
    \E ids \in {NodeIds, {"A", "B"}, {}}, rels \in {LoadedRelationships, <<>>} :
        InitGraph(LoadedPositions, DefaultScale, [n \in ids |-> LoadedNodes[n]], rels)

\* snapshots for the canvas: with and without node C, with single and with
\* parallel relationships, with distinct and with coincident positions
InitDraw ==
    \E ids \in {NodeIds, {"A", "B"}},
       rels \in {LoadedRelationships, ParallelRelationships},
       pos \in {LoadedPositions, OriginPositions} :
        InitGraph(pos, DefaultScale, [n \in ids |-> LoadedNodes[n]], rels)

----------------------------------------------------------------------------
(* Filters of the explorer tab *)

\* String.prototype.toLowerCase on the alphabet of the model
ToLowerChar(c) == IF c = "A" THEN "a" ELSE IF c = "B" THEN "b" ELSE IF c = "C" THEN "c"
                  ELSE IF c = "X" THEN "x" ELSE IF c = "Z" THEN "z" ELSE c

ToLowerCaseIdMut(str) == str

ToLowerCase(str) == [i \in DOMAIN str |-> ToLowerChar(str[i])]

\* String.prototype.includes
Includes(str, part) ==
    \E off \in 0..(Len(str) - Len(part)) : \A j \in 1..Len(part) : str[off + j] = part[j]

\* the characters of a node id (ids of the model are one letter long)
IdText(i) == <<i>>

matchesModule(node) == selectedModule = "all" \/ node.module = selectedModule

matchesSearch(node) ==
    \/ searchTerm = <<>>
    \/ Includes(ToLowerCase(IdText(node.id)), ToLowerCase(searchTerm))
    \/ /\ node.definition # None /\ The(node.definition) # <<>>
       /\ Includes(ToLowerCase(The(node.definition)), ToLowerCase(searchTerm))

\* Object.values(nodes).filter(...), as the set of the node objects kept
filteredNodes == {nodes[k] : k \in {i \in DOMAIN nodes : matchesModule(nodes[i]) /\ matchesSearch(nodes[i])}}

filteredRelationshipsEitherEndMut ==
    IF ~showRelationships THEN <<>>
    ELSE LET nodeIds == {n.id : n \in filteredNodes}
             keep(rel) == rel.from \in nodeIds \/ rel.to \in nodeIds
         IN SelectSeq(relationships, keep)

filteredRelationships ==
    IF ~showRelationships THEN <<>>
    ELSE LET nodeIds == {n.id : n \in filteredNodes}
             keep(rel) == rel.from \in nodeIds /\ rel.to \in nodeIds
         IN SelectSeq(relationships, keep)

\* onChange of the search box
SetSearchTerm(t) ==
    /\ searchTerm' = t
    /\ Cmd("other")
    /\ UNCHANGED <<positions, serverPositions, viewVars, playerVars, ticker, rafQueue,
                   selectedNode, editVars, inflight, toast, mounted, session, used,
                   nodes, relationships, selectedModule, showRelationships>>
    /\ UNCHANGED crudVars /\ UNCHANGED pageVars

\* onChange of the module selector
SetSelectedModule(m) ==
    /\ selectedModule' = m
    /\ Cmd("other")
    /\ UNCHANGED <<positions, serverPositions, viewVars, playerVars, ticker, rafQueue,
                   selectedNode, editVars, inflight, toast, mounted, session, used,
                   nodes, relationships, searchTerm, showRelationships>>
    /\ UNCHANGED crudVars /\ UNCHANGED pageVars

\* onChange of the Show Relationships checkbox
SetShowRelationships(checked) ==
    /\ showRelationships' = checked
    /\ Cmd("other")
    /\ UNCHANGED <<positions, serverPositions, viewVars, playerVars, ticker, rafQueue,
                   selectedNode, editVars, inflight, toast, mounted, session, used,
                   nodes, relationships, selectedModule, searchTerm>>
    /\ UNCHANGED crudVars /\ UNCHANGED pageVars

----------------------------------------------------------------------------
(* Viewport commands *)

handleWheel(deltaY) ==
    /\ transform' = [transform EXCEPT !.scale = WheelScale(transform.scale, deltaY)]
    /\ Cmd("wheel")
    /\ UNCHANGED <<positions, serverPositions, isDragging, dragStart, playerVars,
                   ticker, rafQueue, selectedNode, editVars, inflight, toast,
                   mounted, session>>

ZoomInButton ==
    /\ transform' = [transform EXCEPT !.scale = ZoomInScale(transform.scale)]
    /\ Cmd("other")
    /\ UNCHANGED <<positions, serverPositions, isDragging, dragStart, playerVars,
                   ticker, rafQueue, selectedNode, editVars, inflight, toast,
                   mounted, session>>

ZoomOutButton ==
    /\ transform' = [transform EXCEPT !.scale = ZoomOutScale(transform.scale)]
    /\ Cmd("other")
    /\ UNCHANGED <<positions, serverPositions, isDragging, dragStart, playerVars,
                   ticker, rafQueue, selectedNode, editVars, inflight, toast,
                   mounted, session>>

HomeButton ==
    /\ transform' = DefaultTransform
    /\ Cmd("other")
    /\ UNCHANGED <<positions, serverPositions, isDragging, dragStart, playerVars,
                   ticker, rafQueue, selectedNode, editVars, inflight, toast,
                   mounted, session>>

----------------------------------------------------------------------------
(* Scenario player *)

\* scenario button of the sidebar
SelectScenarioKeepsRunningMut(sc) ==
    /\ activeScenario' = Some(sc)
    /\ animationStep' = -1
    /\ CmdArg("select", sc.id)
    /\ UNCHANGED <<positions, serverPositions, viewVars, isAnimating, rafQueue,
                   selectedNode, editVars, inflight, toast, mounted, session>>
    /\ Effect(ticker)

SelectScenario(sc) ==
    /\ activeScenario' = Some(sc)
    /\ animationStep' = -1
    /\ isAnimating' = FALSE
    /\ CmdArg("select", sc.id)
    /\ UNCHANGED <<positions, serverPositions, viewVars, rafQueue, selectedNode,
                   editVars, inflight, toast, mounted, session>>
    /\ Effect(ticker)

\* Play button: shown while a scenario is active and not animating
startAnimation ==
    /\ activeScenario # None
    /\ ~isAnimating
    /\ LET scenario == The(activeScenario) IN
        /\ activeScenario' = Some(scenario)
        /\ animationStep' = 0
        /\ isAnimating' = TRUE
        /\ selectedNode' = None
        /\ transform' = IF scenario.path # <<>> /\ scenario.path[1] \in DOMAIN positions
                        THEN Recentre(transform, positions[scenario.path[1]])
                        ELSE transform
    /\ Cmd("play")
    /\ UNCHANGED <<positions, serverPositions, isDragging, dragStart, rafQueue,
                   editVars, inflight, toast, mounted, session>>
    /\ Effect(ticker)

\* Pause button: shown while animating
stopAnimation ==
    /\ activeScenario # None
    /\ isAnimating
    /\ isAnimating' = FALSE
    /\ animationStep' = -1
    /\ Cmd("pause")
    /\ UNCHANGED <<positions, serverPositions, viewVars, activeScenario, rafQueue,
                   selectedNode, editVars, inflight, toast, mounted, session>>
    /\ Effect(None)

\* Reset button: shown while a scenario is active
ResetButton ==
    /\ activeScenario # None
    /\ animationStep' = -1
    /\ Cmd("resetStep")
    /\ UNCHANGED <<positions, serverPositions, viewVars, activeScenario, isAnimating,
                   rafQueue, selectedNode, editVars, inflight, toast, mounted, session>>
    /\ Effect(ticker)

\* Close / Exit Flow button: shown while a scenario is active
resetViewKeepsTransformMut ==
    /\ activeScenario # None
    /\ activeScenario' = None
    /\ animationStep' = -1
    /\ isAnimating' = FALSE
    /\ Cmd("exit")
    /\ UNCHANGED <<positions, serverPositions, viewVars, rafQueue,
                   selectedNode, editVars, inflight, toast, mounted, session>>
    /\ Effect(None)

resetView ==
    /\ activeScenario # None
    /\ activeScenario' = None
    /\ animationStep' = -1
    /\ isAnimating' = FALSE
    /\ transform' = DefaultTransform
    /\ Cmd("exit")
    /\ UNCHANGED <<positions, serverPositions, isDragging, dragStart, rafQueue,
                   selectedNode, editVars, inflight, toast, mounted, session>>
    /\ Effect(None)

\* prev >= (activeScenario.path?.length || 0) - 1
TickFinishedLateMut(prev, path) == prev >= Len(path)

TickFinishedEarlyMut(prev, path) == prev >= Len(path) - 2

TickFinished(prev, path) == prev >= Len(path) - 1

\* the callback with a recentring that takes a missing position for the origin
TickRecentresOriginMut ==
    /\ ticker # None
    /\ Len(rafQueue) < MaxRafPending
    /\ LET tk == The(ticker)
           path == tk.scenario.path
           prev == animationStep
       IN IF TickFinished(prev, path)
          THEN /\ isAnimating' = FALSE
               /\ UNCHANGED <<animationStep, rafQueue>>
          ELSE /\ animationStep' = prev + 1
               /\ rafQueue' = IF prev + 2 \in DOMAIN path
                              THEN Append(rafQueue,
                                          IF path[prev + 2] \in DOMAIN tk.positions
                                          THEN tk.positions[path[prev + 2]]
                                          ELSE Pt(0, 0))
                              ELSE rafQueue
               /\ UNCHANGED isAnimating
    /\ Sys("tick")
    /\ ticks' = ticks + 1
    /\ UNCHANGED <<positions, serverPositions, viewVars, activeScenario, selectedNode,
                   editVars, inflight, toast, mounted, session>>
    /\ Effect(ticker)

\* the setInterval callback, run with the closure of the effect that created it
Tick ==
    /\ ticker # None
    /\ Len(rafQueue) < MaxRafPending
    /\ LET tk == The(ticker)
           path == tk.scenario.path
           prev == animationStep
       IN IF TickFinished(prev, path)
          THEN /\ isAnimating' = FALSE
               /\ UNCHANGED <<animationStep, rafQueue>>
          ELSE /\ animationStep' = prev + 1
               /\ rafQueue' = IF prev + 2 \in DOMAIN path /\ path[prev + 2] \in DOMAIN tk.positions
                              THEN Append(rafQueue, tk.positions[path[prev + 2]])
                              ELSE rafQueue
               /\ UNCHANGED isAnimating
    /\ Sys("tick")
    /\ ticks' = ticks + 1
    /\ UNCHANGED <<positions, serverPositions, viewVars, activeScenario, selectedNode,
                   editVars, inflight, toast, mounted, session>>
    /\ Effect(ticker)

\* the next animation frame: runs the callbacks requested by earlier ticks
AnimationFrame ==
    /\ rafQueue # <<>>
    /\ transform' = RunFrames(transform, rafQueue)
    /\ rafQueue' = <<>>
    /\ Sys("frame")
    /\ UNCHANGED <<positions, serverPositions, isDragging, dragStart, playerVars,
                   ticker, selectedNode, editVars, inflight, toast, mounted,
                   session, ticks>>

\* the component is removed: the effect's cleanup clears the interval
Unmount ==
    /\ mounted
    /\ mounted' = FALSE
    /\ ticker' = None
    /\ Cmd("unmount")
    /\ UNCHANGED <<positions, serverPositions, viewVars, playerVars, rafQueue,
                   selectedNode, editVars, inflight, toast, session>>

----------------------------------------------------------------------------
(* Node selection *)

\* a node is drawn (and can receive pointer events) only when the filters keep it and
\* it has a position
IsDrawn(n) == (\E node \in filteredNodes : node.id = n) /\ n \in DOMAIN positions

\* onClick of a node group
\* a node click that also stops the player
ClickNodeStopsPlayerMut(n) ==
    /\ IsDrawn(n)
    /\ selectedNode' = IF editingPositionNode = Some(n) THEN selectedNode ELSE Some(n)
    /\ isAnimating' = FALSE
    /\ Cmd("other")
    /\ UNCHANGED <<positions, serverPositions, viewVars, activeScenario, animationStep,
                   rafQueue, editVars, inflight, toast, mounted, session>>
    /\ Effect(None)

ClickNode(n) ==
    /\ IsDrawn(n)
    /\ selectedNode' = IF editingPositionNode = Some(n) THEN selectedNode ELSE Some(n)
    /\ Cmd("other")
    /\ UNCHANGED <<positions, serverPositions, viewVars, playerVars, ticker, rafQueue,
                   editVars, inflight, toast, mounted, session>>

\* View button of the All Nodes list of the sidebar: lists every loaded node
ViewNode(n) ==
    /\ n \in DOMAIN nodes
    /\ selectedNode' = Some(n)
    /\ Cmd("other")
    /\ UNCHANGED <<positions, serverPositions, viewVars, playerVars, ticker, rafQueue,
                   editVars, inflight, toast, mounted, session>>

\* onClick of the svg
ClickCanvas ==
    /\ selectedNode' = None
    /\ Cmd("clickCanvas")
    /\ UNCHANGED <<positions, serverPositions, viewVars, playerVars, ticker, rafQueue,
                   editVars, inflight, toast, mounted, session>>

----------------------------------------------------------------------------
(* Pointer events on the svg: canvas pan and node drag *)

\* the element a pointer-down lands on: the canvas itself, or an element of a drawn node
ShapeTag(n) == IF NodeType(n) = "kpi" THEN "rect"
               ELSE IF NodeType(n) = "decision" THEN "polygon" ELSE "circle"

Targets == {[node |-> "", tag |-> "svg"]}
           \cup {[node |-> n, tag |-> ShapeTag(n)] : n \in DOMAIN positions}
           \cup {[node |-> n, tag |-> "text"] : n \in DOMAIN positions}

\* a pointer-down that starts a drag on whatever node it hits
StartsNodeDragOnAnyNodeMut(t) == t.node # ""

\* the node's onMouseDown calls handleNodeDragStart and that one stops the propagation
StartsNodeDrag(t) == t.node # "" /\ editingPositionNode = Some(t.node)

\* handleMouseDown of the svg starts a canvas pan
StartsPan(t) == ~StartsNodeDrag(t) /\ nodeDragStart = None /\ t.tag \in {"svg", "rect"}

handleMouseDown(t, p) ==
    /\ t \in Targets
    /\ IF StartsNodeDrag(t)
       THEN /\ nodeDragStart' = Some([mouseX |-> p.x, mouseY |-> p.y,
                                      nodeX |-> positions[t.node].x,
                                      nodeY |-> positions[t.node].y])
            /\ UNCHANGED <<isDragging, dragStart>>
       ELSE IF StartsPan(t)
       THEN /\ isDragging' = TRUE
            /\ dragStart' = Pt(p.x - transform.x, p.y - transform.y)
            /\ UNCHANGED nodeDragStart
       ELSE UNCHANGED <<isDragging, dragStart, nodeDragStart>>
    /\ CmdArg("mousedown", t.node)
    /\ UNCHANGED <<positions, serverPositions, transform, playerVars, ticker, rafQueue,
                   selectedNode, editingPositionNode, editingPositionOriginal,
                   inflight, toast, mounted, session>>

\* the drag with the screen delta taken for a world delta
DraggedNoScaleMut(ds, p, sc) == Pt(ds.nodeX + (p.x - ds.mouseX), ds.nodeY + (p.y - ds.mouseY))

\* the position handleNodeDragMove gives the node under edit
Dragged(ds, p, sc) == Pt(ds.nodeX + OverScale(p.x - ds.mouseX, sc),
                         ds.nodeY + OverScale(p.y - ds.mouseY, sc))

\* prev => ({ ...prev, [key]: value })
PutPos(pos, key, value) == [m \in DOMAIN pos \cup {key} |-> IF m = key THEN value ELSE pos[m]]

handleMouseMove(p) ==
    /\ IF nodeDragStart # None /\ editingPositionNode # None
       THEN /\ positions' = PutPos(positions, The(editingPositionNode),
                                   Dragged(The(nodeDragStart), p, transform.scale))
            /\ session' = [session EXCEPT !.moved =
                               @ \/ (The(editingPositionNode) = session.node
                                     /\ Some(positions'[session.node]) # session.pre)]
            /\ UNCHANGED transform
       ELSE IF isDragging
       THEN /\ transform' = [transform EXCEPT !.x = p.x - dragStart.x, !.y = p.y - dragStart.y]
            /\ UNCHANGED <<positions, session>>
       ELSE UNCHANGED <<positions, session, transform>>
    /\ Cmd("mousemove")
    /\ UNCHANGED <<serverPositions, isDragging, dragStart, playerVars, rafQueue,
                   selectedNode, editVars, inflight, toast, mounted>>
    /\ Effect(ticker)

\* a pointer-up that saves the dropped node by itself
handleMouseUpSavesMut ==
    /\ IF nodeDragStart # None
       THEN /\ nodeDragStart' = None
            /\ inflight' = IF Len(inflight) < MaxInflight /\ editingPositionNode # None
                            THEN Append(inflight, [node |-> The(editingPositionNode),
                                                   body |-> positions[The(editingPositionNode)],
                                                   original |-> editingPositionOriginal])
                            ELSE inflight
            /\ UNCHANGED isDragging
       ELSE isDragging' = FALSE /\ UNCHANGED <<nodeDragStart, inflight>>
    /\ Cmd("other")
    /\ UNCHANGED <<positions, serverPositions, transform, dragStart, playerVars, ticker,
                   rafQueue, selectedNode, editingPositionNode, editingPositionOriginal,
                   toast, mounted, session>>

\* onMouseUp and onMouseLeave of the svg
handleMouseUp ==
    /\ IF nodeDragStart # None
       THEN nodeDragStart' = None /\ UNCHANGED isDragging
       ELSE isDragging' = FALSE /\ UNCHANGED nodeDragStart
    /\ Cmd("other")
    /\ UNCHANGED <<positions, serverPositions, transform, dragStart, playerVars, ticker,
                   rafQueue, selectedNode, editingPositionNode, editingPositionOriginal,
                   inflight, toast, mounted, session>>

----------------------------------------------------------------------------
(* Position editing *)

\* Move Position button of the node detail panel (shown for the selected node)
OriginalKeptMut(nodeId) == editingPositionOriginal

OriginalAtStart(nodeId) == IF nodeId \in DOMAIN positions
                           THEN Some(positions[nodeId])
                           ELSE editingPositionOriginal

startEditPosition ==
    /\ selectedNode # None
    /\ LET nodeId == The(selectedNode) IN
        /\ editingPositionOriginal' = OriginalAtStart(nodeId)
        /\ editingPositionNode' = Some(nodeId)
        /\ nodeDragStart' = None
        /\ session' = [node |-> nodeId,
                       pre |-> IF nodeId \in DOMAIN positions
                               THEN Some(positions[nodeId]) ELSE None,
                       clean |-> (inflight = <<>>),
                       moved |-> FALSE,
                       phase |-> "editing"]
    /\ CmdArg("enterEdit", The(selectedNode))
    /\ UNCHANGED <<positions, serverPositions, viewVars, playerVars, ticker, rafQueue,
                   selectedNode, inflight, toast, mounted>>

\* the positions after putting the remembered original back
RevertedNotMut(pos, node, original) == pos

Reverted(pos, node, original) == IF original # None THEN PutPos(pos, node, The(original)) ELSE pos

\* Cancel button of the edit bar (shown while a node is under edit)
cancelEditPosition ==
    /\ editingPositionNode # None
    /\ positions' = Reverted(positions, The(editingPositionNode), editingPositionOriginal)
    /\ editingPositionNode' = None
    /\ editingPositionOriginal' = None
    /\ nodeDragStart' = None
    /\ session' = [session EXCEPT !.phase = "cancelled"]
    /\ Cmd("cancel")
    /\ UNCHANGED <<serverPositions, viewVars, playerVars, rafQueue, selectedNode,
                   inflight, toast, mounted>>
    /\ Effect(ticker)

\* Save Position button, up to the await: the PUT request leaves
saveEditPosition ==
    /\ editingPositionNode # None
    /\ Len(inflight) < MaxInflight
    /\ inflight' = IF The(editingPositionNode) \in DOMAIN positions
                   THEN Append(inflight, [node |-> The(editingPositionNode),
                                          body |-> positions[The(editingPositionNode)],
                                          original |-> editingPositionOriginal])
                   ELSE inflight
    /\ Cmd("commit")
    /\ UNCHANGED <<positions, serverPositions, viewVars, playerVars, ticker, rafQueue,
                   selectedNode, editVars, toast, mounted, session>>

RemoveAt(q, i) == [j \in 1..(Len(q) - 1) |-> IF j < i THEN q[j] ELSE q[j + 1]]

\* saveEditPosition after the await: the response of request i arrives
SaveResponse(i, ok) ==
    /\ i \in DOMAIN inflight
    /\ LET req == inflight[i] IN
        /\ inflight' = RemoveAt(inflight, i)
        /\ IF ok
           THEN /\ serverPositions' = PutPos(serverPositions, req.node, req.body)
                /\ toast' = Some([type |-> "success", text |-> "position saved"])
                /\ UNCHANGED positions
           ELSE /\ toast' = Some([type |-> "error", text |-> "failed to save position"])
                /\ positions' = Reverted(positions, req.node, req.original)
                /\ UNCHANGED serverPositions
        /\ session' = IF session.phase = "editing"
                      THEN [session EXCEPT !.phase = IF ok THEN "saved" ELSE "failed"]
                      ELSE session
    /\ editingPositionNode' = None
    /\ editingPositionOriginal' = None
    /\ nodeDragStart' = None
    /\ Sys(IF ok THEN "saveOk" ELSE "saveFail")
    /\ UNCHANGED <<viewVars, playerVars, rafQueue, selectedNode, mounted, ticks>>
    /\ Effect(ticker)

----------------------------------------------------------------------------
(* Path queries of the renderer *)

\* Array.prototype.indexOf, zero based, -1 when absent
IndexOf(path, nodeId) ==
    IF \E i \in DOMAIN path : path[i] = nodeId
    THEN (CHOOSE i \in DOMAIN path : path[i] = nodeId /\ \A j \in 1..(i - 1) : path[j] # nodeId) - 1
    ELSE -1

isNodeInPath(nodeId) ==
    activeScenario # None /\ \E i \in DOMAIN The(activeScenario).path : The(activeScenario).path[i] = nodeId

isNodeCurrentUpToStepMut(nodeId) ==
    /\ activeScenario # None
    /\ animationStep >= 0
    /\ \E i \in DOMAIN The(activeScenario).path :
          i <= animationStep + 1 /\ The(activeScenario).path[i] = nodeId

isNodeCurrent(nodeId) ==
    /\ activeScenario # None
    /\ animationStep >= 0
    /\ animationStep + 1 \in DOMAIN The(activeScenario).path
    /\ The(activeScenario).path[animationStep + 1] = nodeId

isNodeVisitedInclusiveMut(nodeId) ==
    IF activeScenario = None \/ animationStep < 0 THEN FALSE
    ELSE LET idx == IndexOf(The(activeScenario).path, nodeId)
         IN idx >= 0 /\ idx <= animationStep

isNodeVisited(nodeId) ==
    IF activeScenario = None \/ animationStep < 0 THEN FALSE
    ELSE LET idx == IndexOf(The(activeScenario).path, nodeId)
         IN idx >= 0 /\ idx < animationStep

\* an active-edge test that takes the pair in the direction of the path only
isEdgeActiveDirectedMut(from, to) ==
    IF activeScenario = None \/ animationStep < 0
       \/ animationStep >= Len(The(activeScenario).path) - 1
    THEN FALSE
    ELSE LET current == The(activeScenario).path[animationStep + 1]
             next == The(activeScenario).path[animationStep + 2]
         IN from = current /\ to = next

isEdgeActive(from, to) ==
    IF activeScenario = None \/ animationStep < 0
       \/ animationStep >= Len(The(activeScenario).path) - 1
    THEN FALSE
    ELSE LET current == The(activeScenario).path[animationStep + 1]
             next == The(activeScenario).path[animationStep + 2]
         IN (from = current /\ to = next) \/ (to = current /\ from = next)

isEdgeInPath(from, to) ==
    IF activeScenario = None THEN FALSE
    ELSE LET path == The(activeScenario).path
         IN \E i \in 1..(Len(path) - 1) :
               \/ path[i] = from /\ path[i + 1] = to
               \/ path[i] = to /\ path[i + 1] = from

\* whether a relationship of the loaded graph links the node to the selection sel
Connected(sel, nodeId) ==
    /\ sel # None
    /\ \E i \in DOMAIN relationships :
          \/ relationships[i].from = The(sel) /\ relationships[i].to = nodeId
          \/ relationships[i].to = The(sel) /\ relationships[i].from = nodeId

isConnected(nodeId) == Connected(selectedNode, nodeId)

\* node opacity with the selected node and its neighbours kept opaque off the path
nodeOpacityKeepsSelectionMut(sel, nodeId) ==
    IF activeScenario # None
    THEN IF isNodeCurrent(nodeId) THEN 100
         ELSE IF isNodeVisited(nodeId) THEN 100
         ELSE IF isNodeInPath(nodeId) THEN 80
         ELSE IF sel = Some(nodeId) \/ Connected(sel, nodeId) THEN 100
         ELSE 20
    ELSE IF sel # None /\ sel # Some(nodeId) /\ ~Connected(sel, nodeId) THEN 25
    ELSE 100

\* opacity, in percent, that renderNodeShape gives a node when sel is selected
nodeOpacity(sel, nodeId) ==
    IF activeScenario # None
    THEN IF isNodeCurrent(nodeId) THEN 100
         ELSE IF isNodeVisited(nodeId) THEN 100
         ELSE IF isNodeInPath(nodeId) THEN 80
         ELSE 20
    ELSE IF sel # None /\ sel # Some(nodeId) /\ ~Connected(sel, nodeId) THEN 25
    ELSE 100

\* opacity, in percent, of the line of a relationship when sel is selected
edgeOpacity(sel, rel) ==
    LET isHighlighted == sel = Some(rel.from) \/ sel = Some(rel.to)
    IN IF activeScenario # None
       THEN IF isEdgeActive(rel.from, rel.to) THEN 100
            ELSE IF isEdgeInPath(rel.from, rel.to) THEN 70
            ELSE 15
       ELSE IF isHighlighted THEN 100
       ELSE IF sel # None THEN 20
       ELSE 50

\* the first entry whose step is the given number, if any
Find(flow, s) ==
    LET hits == {i \in DOMAIN flow : flow[i].step = s}
    IN IF hits = {} THEN None
       ELSE Some(flow[CHOOSE i \in hits : \A j \in hits : i <= j])

\* the annotation looked up under the step index itself
currentDataFlowByIndexMut ==
    IF activeScenario = None \/ animationStep < 0 THEN None
    ELSE IF "dataFlow" \notin DOMAIN The(activeScenario) THEN None
    ELSE Find(The(activeScenario).dataFlow, animationStep)

\* the annotation shown for the current step; null and undefined are both None
currentDataFlow ==
    IF activeScenario = None \/ animationStep < 0 THEN None
    ELSE IF "dataFlow" \notin DOMAIN The(activeScenario) THEN None
    ELSE Find(The(activeScenario).dataFlow, animationStep + 1)

----------------------------------------------------------------------------
(* Drawing: which nodes and relationships the canvas draws, and where.
   Two components draw the graph: the application canvas (main.jsx) and the
   SchemaGraph component (kg_frontend_template.jsx).  Operators of the second
   carry the prefix "template" where the first has one of the same purpose.
   A computed coordinate is a number Num(v) or NaN; lengths are rounded down
   to whole pixels and unit vectors are kept in thousandths. *)

NaN == {}
Num(v) == {v}

Abs(v) == IF v < 0 THEN -v ELSE v

\* Math.sqrt(dx * dx + dy * dy), rounded down
Hypot(dx, dy) ==
    CHOOSE r \in 0..(Abs(dx) + Abs(dy)) :
        r * r <= dx * dx + dy * dy /\ dx * dx + dy * dy < (r + 1) * (r + 1)

\* arithmetic of JavaScript numbers: NaN is contagious and 0 / 0 is NaN.  Every
\* divisor below is the length of the vector being divided, so a non-zero
\* number is never divided by zero
Plus(a, b) == IF a = NaN \/ b = NaN THEN NaN ELSE Num(The(a) + The(b))
Times(a, b) == IF a = NaN \/ b = NaN THEN NaN ELSE Num(The(a) * The(b))
Quot(a, b) ==
    IF a = NaN \/ b = NaN THEN NaN
    ELSE IF The(b) = 0 THEN NaN
    ELSE Num(The(a) \div The(b))
AbsN(a) == IF a = NaN THEN NaN ELSE Num(Abs(The(a)))

\* Object.keys(nodes): the ids in insertion order
NodeOrder == <<"A", "B", "C">>

DEFAULT_CENTER == Pt(800, 500)

\* the forEach of nodePositions: a node without an entry takes the next grid slot
RECURSIVE Fallback(_, _, _, _)
Fallback(keys, computed, nextX, nextY) ==
    IF keys = <<>> THEN computed
    ELSE IF Head(keys) \in DOMAIN computed
    THEN Fallback(Tail(keys), computed, nextX, nextY)
    ELSE LET placed == [n \in DOMAIN computed \cup {Head(keys)} |->
                          IF n = Head(keys) THEN Pt(nextX, nextY) ELSE computed[n]]
         IN IF nextX + 150 > 1800
            THEN Fallback(Tail(keys), placed, DEFAULT_CENTER.x, nextY + 120)
            ELSE Fallback(Tail(keys), placed, nextX + 150, nextY)

\* SchemaGraph: the positions with the fallback for nodes that have none
nodePositions ==
    LET loaded(n) == n \in DOMAIN nodes
    IN Fallback(SelectSeq(NodeOrder, loaded), positions, DEFAULT_CENTER.x, DEFAULT_CENTER.y)

\* the node map without its position guard
drawnNodesNoGuardMut == {node.id : node \in filteredNodes}

\* application canvas: the nodes the map over filteredNodes draws
drawnNodes == {node.id : node \in {m \in filteredNodes : m.id \in DOMAIN positions}}

\* application canvas: the relationships drawn, as indices of filteredRelationships
drawnEdges ==
    {i \in DOMAIN filteredRelationships :
        /\ filteredRelationships[i].from \in DOMAIN positions
        /\ filteredRelationships[i].to \in DOMAIN positions}

templateDrawnNodes == {node.id : node \in {m \in filteredNodes : m.id \in DOMAIN nodePositions}}

templateDrawnEdges ==
    {i \in DOMAIN filteredRelationships :
        /\ filteredRelationships[i].from \in DOMAIN nodePositions
        /\ filteredRelationships[i].to \in DOMAIN nodePositions}

\* SchemaGraph: the visible relationships between the same unordered pair as
\* relationship i, its place among them, and its lateral offset
parallelEdges(i) ==
    LET rel == filteredRelationships[i]
    IN {j \in DOMAIN filteredRelationships :
          LET r == filteredRelationships[j]
          IN \/ r.from = rel.from /\ r.to = rel.to
             \/ r.from = rel.to /\ r.to = rel.from}

edgeIndex(i) == Cardinality({j \in parallelEdges(i) : j < i})

offset(i) == ((2 * edgeIndex(i) - (Cardinality(parallelEdges(i)) - 1)) * 20) \div 2

\* application canvas: the distance kept from the centre of a node
NodeOffset(n) == IF NodeType(n) = "decision" THEN 38 ELSE IF NodeType(n) = "kpi" THEN 30 ELSE 35

\* application canvas: the straight line drawn for relationship i
edgeLine(i) ==
    LET rel == filteredRelationships[i]
        fromPos == positions[rel.from]
        toPos == positions[rel.to]
        dx == toPos.x - fromPos.x
        dy == toPos.y - fromPos.y
        len == IF Hypot(dx, dy) = 0 THEN 1 ELSE Hypot(dx, dy)
        fromOffset == NodeOffset(rel.from)
        toOffset == NodeOffset(rel.to)
    IN [kind |-> "line",
        startX |-> Plus(Num(fromPos.x), Quot(Num(dx * fromOffset), Num(len))),
        startY |-> Plus(Num(fromPos.y), Quot(Num(dy * fromOffset), Num(len))),
        endX |-> Plus(Num(toPos.x), Quot(Num(-dx * toOffset), Num(len))),
        endY |-> Plus(Num(toPos.y), Quot(Num(-dy * toOffset), Num(len))),
        ctrlX |-> Num((fromPos.x + toPos.x) \div 2),
        ctrlY |-> Num((fromPos.y + toPos.y) \div 2),
        offset |-> 0]

\* SchemaGraph: the distance kept from the centre of a node, in thousandths
templateNodeOffset(n, ux, uy) ==
    IF NodeType(n) = "kpi"
    THEN Quot(Num(24 * 1000 * 1000), Plus(AbsN(ux), AbsN(uy)))
    ELSE Num(28 * 1000)

\* SchemaGraph: the quadratic curve drawn for relationship i
templateEdgePath(i) ==
    LET rel == filteredRelationships[i]
        fromPos == nodePositions[rel.from]
        toPos == nodePositions[rel.to]
        dx == toPos.x - fromPos.x
        dy == toPos.y - fromPos.y
        len == Num(Hypot(dx, dy))
        nx == Quot(Num(-dy * 1000), len)
        ny == Quot(Num(dx * 1000), len)
        fromNx == Quot(Num(dx * 1000), len)
        fromNy == Quot(Num(dy * 1000), len)
        fromOffset == templateNodeOffset(rel.from, fromNx, fromNy)
        toNx == Quot(Num(-dx * 1000), len)
        toNy == Quot(Num(-dy * 1000), len)
        toOffset == templateNodeOffset(rel.to, toNx, toNy)
    IN [kind |-> "curve",
        startX |-> Plus(Num(fromPos.x), Quot(Times(fromNx, fromOffset), Num(1000 * 1000))),
        startY |-> Plus(Num(fromPos.y), Quot(Times(fromNy, fromOffset), Num(1000 * 1000))),
        endX |-> Plus(Num(toPos.x), Quot(Times(toNx, toOffset), Num(1000 * 1000))),
        endY |-> Plus(Num(toPos.y), Quot(Times(toNy, toOffset), Num(1000 * 1000))),
        ctrlX |-> Plus(Num((fromPos.x + toPos.x) \div 2), Quot(Times(nx, Num(offset(i))), Num(1000))),
        ctrlY |-> Plus(Num((fromPos.y + toPos.y) \div 2), Quot(Times(ny, Num(offset(i))), Num(1000))),
        offset |-> offset(i)]

----------------------------------------------------------------------------
(* The node form (NodeFormModal) and the node requests of handleSaveNode.
   Node ids are one character long; the blank is the one whitespace character. *)

\* the ids typed into the Node ID field, and where a new node may be placed
TypedIds == {"", " ", "A", "B", "C"}
NewNodePoints == {Pt(400, 300)}

\* v.replace(/\s+/g, '_') and String.prototype.trim on these strings
ReplaceWhitespace(v) == IF v = " " THEN "_" ELSE v
Trim(v) == IF v = " " THEN "" ELSE v

\* the state of a form opened without a node
EmptyForm == [id |-> "", module |-> "m1", definition |-> Some(<<>>)]

\* setNodeModal({ mode: 'add' }) / setNodeModal({ mode: 'edit', node }): the form
\* starts as a copy of the node; node is the id of the node being edited
OpenNodeForm(mode, n) ==
    /\ nodeModal = None
    /\ mode = "edit" => n \in DOMAIN nodes
    /\ mode = "add" => n = ""
    /\ nodeModal' = Some([mode |-> mode, node |-> n,
                          form |-> IF mode = "edit" THEN nodes[n] ELSE EmptyForm,
                          saving |-> FALSE, error |-> ""])
    /\ CmdArg("openForm", n)
    /\ UNCHANGED <<positions, serverPositions, viewVars, playerVars, ticker, rafQueue,
                   selectedNode, editVars, inflight, toast, mounted, session, used,
                   filterVars, requests, serverNodes, unreloaded, pageVars>>

\* onChange of the Node ID field; Field has no disabled property, so the input
\* takes text in edit mode as well
SetFormId(v) ==
    /\ nodeModal # None
    /\ nodeModal' = Some([The(nodeModal) EXCEPT !.form.id = ReplaceWhitespace(v)])
    /\ CmdArg("typeId", v)
    /\ UNCHANGED <<positions, serverPositions, viewVars, playerVars, ticker, rafQueue,
                   selectedNode, editVars, inflight, toast, mounted, session, used,
                   filterVars, requests, serverNodes, unreloaded, pageVars>>

handleModuleChange(mod) ==
    /\ nodeModal # None
    /\ nodeModal' = Some([The(nodeModal) EXCEPT !.form.module = mod])
    /\ CmdArg("typeModule", mod)
    /\ UNCHANGED <<positions, serverPositions, viewVars, playerVars, ticker, rafQueue,
                   selectedNode, editVars, inflight, toast, mounted, session, used,
                   filterVars, requests, serverNodes, unreloaded, pageVars>>

\* Cancel button and close box of the modal
CloseNodeForm ==
    /\ nodeModal # None
    /\ nodeModal' = None
    /\ Cmd("closeForm")
    /\ UNCHANGED <<positions, serverPositions, viewVars, playerVars, ticker, rafQueue,
                   selectedNode, editVars, inflight, toast, mounted, session, used,
                   filterVars, requests, serverNodes, unreloaded, pageVars>>

\* the request handleSaveNode sends for a payload: POST /api/nodes, or PUT
\* /api/nodes/<payload.id>.  target and existed record, for the request, the node
\* the form was opened for and whether the id was taken when it was sent
NodeRequest(m, pos) ==
    [method |-> IF m.mode = "add" THEN "POST" ELSE "PUT",
     id |-> m.form.id,
     body |-> m.form,
     putPosition |-> m.mode = "add" /\ m.form.id \notin DOMAIN positions,
     position |-> IF m.form.id \in DOMAIN positions THEN positions[m.form.id] ELSE pos,
     target |-> m.node,
     existed |-> m.form.id \in DOMAIN nodes,
     modal |-> m]

\* Create Node / Update Node button: handleSave of the form and handleSaveNode
\* up to its first await
handleSave ==
    /\ nodeModal # None
    /\ ~The(nodeModal).saving
    /\ LET m == The(nodeModal) IN
        IF Trim(m.form.id) = ""
        THEN /\ nodeModal' = Some([m EXCEPT !.error = "Node ID is required"])
             /\ UNCHANGED requests
        ELSE IF m.mode = "add" /\ m.form.id \in DOMAIN nodes
        THEN /\ nodeModal' = Some([m EXCEPT !.error = "Node ID already exists"])
             /\ UNCHANGED requests
        ELSE /\ Len(requests) < MaxNodeRequests
             /\ nodeModal' = Some([m EXCEPT !.saving = TRUE, !.error = ""])
             /\ \E pos \in NewNodePoints :
                   requests' = Append(requests,
                                      NodeRequest([m EXCEPT !.saving = TRUE, !.error = ""], pos))
    /\ Cmd("saveForm")
    /\ UNCHANGED <<positions, serverPositions, viewVars, playerVars, ticker, rafQueue,
                   selectedNode, editVars, inflight, toast, mounted, session,
                   filterVars, serverNodes, unreloaded, pageVars>>

PutNode(map, key, value) == [m \in DOMAIN map \cup {key} |-> IF m = key THEN value ELSE map[m]]

\* handleSaveNode and handleSave after the awaits: the response of request i
\* arrives.  The service creates only a new id and updates only an existing one.
\* On success the toast is set, loadData replaces the snapshot and the modal is
\* closed; on failure the error is shown in the form that sent the request.
NodeResponse(i, ok) ==
    /\ i \in DOMAIN requests
    /\ LET req == requests[i] IN
        /\ ok => (req.method = "POST") = (req.id \notin DOMAIN serverNodes)
        /\ requests' = RemoveAt(requests, i)
        /\ IF ok
           THEN /\ serverNodes' = PutNode(serverNodes, req.id, [req.body EXCEPT !.id = req.id])
                /\ serverPositions' = IF req.putPosition
                                      THEN PutPos(serverPositions, req.id, req.position)
                                      ELSE serverPositions
                /\ toast' = Some([type |-> "success", text |-> "node saved"])
                /\ nodes' = serverNodes'
                /\ positions' = serverPositions'
                /\ nodeModal' = None
                /\ unreloaded' = FALSE
           ELSE /\ nodeModal' = IF nodeModal = Some(req.modal)
                                THEN Some([req.modal EXCEPT !.saving = FALSE,
                                                            !.error = "request failed"])
                                ELSE nodeModal
                /\ UNCHANGED <<serverNodes, serverPositions, toast, nodes, positions, unreloaded>>
    /\ Sys(IF ok THEN "nodeOk" ELSE "nodeFail")
    /\ UNCHANGED <<viewVars, playerVars, rafQueue, selectedNode, editVars, inflight,
                   mounted, session, used, ticks, pageVars,
                   relationships, selectedModule, searchTerm, showRelationships>>
    /\ Effect(ticker)

----------------------------------------------------------------------------
(* Journeys and the reload of the snapshot *)

\* the loading screen and the error screen replace the page: its controls are
\* there only when neither is shown
Page == ~loading /\ apiError = None

JourneyIds(js) == {j.id : j \in js}

\* Delete Journey, confirmed: handleDeleteJourney up to its await
handleDeleteJourney(journeyKey) ==
    /\ Len(deletes) < MaxJourneyDeletes
    /\ deletes' = Append(deletes, journeyKey)
    /\ CmdArg("deleteJourney", journeyKey)
    /\ UNCHANGED <<positions, serverPositions, viewVars, playerVars, ticker, rafQueue,
                   selectedNode, editVars, inflight, toast, mounted, session, used,
                   filterVars, crudVars, journeys, loading, apiError, hoveredNode,
                   serverJourneys, defaultModules, relColors>>

\* handleDeleteJourney after the await of the DELETE: the response of request i
\* arrives.  The service deletes only a journey it holds.  On success the active
\* scenario and the toast are set and loadData starts; on failure apiFetch throws
\* and the handler ends.
DeleteJourneyResponse(i, ok) ==
    /\ i \in DOMAIN deletes
    /\ ok => deletes[i] \in JourneyIds(serverJourneys)
    /\ deletes' = RemoveAt(deletes, i)
    /\ IF ok
       THEN /\ serverJourneys' = {j \in serverJourneys : j.id # deletes[i]}
            /\ activeScenario' = None
            /\ toast' = Some([type |-> "success", text |-> "journey deleted"])
            /\ loading' = TRUE
            /\ apiError' = None
       ELSE UNCHANGED <<serverJourneys, activeScenario, toast, loading, apiError>>
    /\ Sys(IF ok THEN "deleteOk" ELSE "deleteFail")
    /\ UNCHANGED <<positions, serverPositions, viewVars, animationStep, isAnimating,
                   rafQueue, selectedNode, editVars, inflight, mounted, session, used,
                   ticks, filterVars, crudVars, journeys, hoveredNode,
                   defaultModules, relColors>>
    /\ Effect(ticker)

\* Retry button of the error screen: loadData up to its await
loadData ==
    /\ apiError # None
    /\ ~loading
    /\ loading' = TRUE
    /\ apiError' = None
    /\ Cmd("retry")
    /\ UNCHANGED <<positions, serverPositions, viewVars, playerVars, ticker, rafQueue,
                   selectedNode, editVars, inflight, toast, mounted, session, used,
                   filterVars, crudVars, journeys, hoveredNode, serverJourneys, deletes,
                   defaultModules, relColors>>

\* the six requests of loadData
Fetches == {"nodes", "relationships", "journeys", "positions", "modules", "rel-colors"}

\* the module maps and colour maps the service may return
ServerModules == {{}, {"m1", "m2"}}
ServerRelColors == {{}, LoadedRelColors}

\* a reload that takes over the answer of every request that did not fail
LoadResponsePartialMut(failed, mods, cols) ==
    /\ loading
    /\ nodes' = IF "nodes" \in failed THEN nodes ELSE serverNodes
    /\ relationships' = IF "relationships" \in failed THEN relationships ELSE LoadedRelationships
    /\ journeys' = IF "journeys" \in failed THEN journeys ELSE serverJourneys
    /\ positions' = IF "positions" \in failed THEN positions ELSE serverPositions
    /\ defaultModules' = IF "modules" \in failed THEN defaultModules
                         ELSE IF mods = {} THEN FALLBACK_MODULES ELSE mods \cup {"all"}
    /\ relColors' = IF "rel-colors" \in failed THEN relColors
                    ELSE IF cols = {} THEN FALLBACK_REL_COLORS ELSE cols
    /\ apiError' = IF failed = {} THEN apiError ELSE Some("API error")
    /\ loading' = FALSE
    /\ Sys(IF failed = {} THEN "loadOk" ELSE "loadFail")
    /\ UNCHANGED <<serverPositions, viewVars, playerVars, rafQueue, selectedNode,
                   editVars, inflight, toast, mounted, session, used, ticks,
                   selectedModule, searchTerm, showRelationships, crudVars,
                   hoveredNode, serverJourneys, deletes>>
    /\ Effect(ticker)

\* loadData after the await of Promise.all: the requests in failed were answered
\* with an error, the others with the data of the service (the service holds
\* LoadedRelationships: the model has no operation that changes them).
\* Promise.all rejects when one request fails, and then only the catch and the
\* finally blocks run.
LoadResponse(failed, mods, cols) ==
    /\ loading
    /\ IF failed = {}
       THEN /\ nodes' = serverNodes
            /\ relationships' = LoadedRelationships
            /\ journeys' = serverJourneys
            /\ positions' = serverPositions
            /\ defaultModules' = IF mods = {} THEN FALLBACK_MODULES ELSE mods \cup {"all"}
            /\ relColors' = IF cols = {} THEN FALLBACK_REL_COLORS ELSE cols
            /\ UNCHANGED apiError
       ELSE /\ apiError' = Some("API error")
            /\ UNCHANGED <<nodes, relationships, journeys, positions, defaultModules,
                           relColors>>
    /\ loading' = FALSE
    /\ Sys(IF failed = {} THEN "loadOk" ELSE "loadFail")
    /\ UNCHANGED <<serverPositions, viewVars, playerVars, rafQueue, selectedNode,
                   editVars, inflight, toast, mounted, session, used, ticks,
                   selectedModule, searchTerm, showRelationships, crudVars,
                   hoveredNode, serverJourneys, deletes>>
    /\ Effect(ticker)

\* onMouseEnter and onMouseLeave of a node
HoverNode(n) ==
    /\ n \in drawnNodes
    /\ hoveredNode' = Some(n)
    /\ Cmd("hover")
    /\ UNCHANGED <<positions, serverPositions, viewVars, playerVars, ticker, rafQueue,
                   selectedNode, editVars, inflight, toast, mounted, session, used,
                   filterVars, crudVars, journeys, loading, apiError, serverJourneys,
                   deletes, defaultModules, relColors>>

UnhoverNode ==
    /\ hoveredNode # None
    /\ hoveredNode' = None
    /\ Cmd("unhover")
    /\ UNCHANGED <<positions, serverPositions, viewVars, playerVars, ticker, rafQueue,
                   selectedNode, editVars, inflight, toast, mounted, session, used,
                   filterVars, crudVars, journeys, loading, apiError, serverJourneys,
                   deletes, defaultModules, relColors>>

----------------------------------------------------------------------------
(* Budgets: the operations that let a value drift without bound are counted *)

Free(A) == A /\ UNCHANGED used /\ UNCHANGED filterVars /\ UNCHANGED crudVars /\ UNCHANGED pageVars

ZoomCounted(A) ==
    /\ used.zoom < MaxZoomOps
    /\ A
    /\ used' = [used EXCEPT !.zoom = @ + 1]
    /\ UNCHANGED filterVars
    /\ UNCHANGED crudVars /\ UNCHANGED pageVars

MouseDownCounted(t, p) ==
    /\ StartsPan(t) => used.pan < MaxPans
    /\ StartsNodeDrag(t) => used.drag < MaxNodeDrags
    /\ handleMouseDown(t, p)
    /\ used' = [used EXCEPT !.pan = IF StartsPan(t) THEN @ + 1 ELSE @,
                            !.drag = IF StartsNodeDrag(t) THEN @ + 1 ELSE @]
    /\ UNCHANGED filterVars
    /\ UNCHANGED crudVars /\ UNCHANGED pageVars

FormSaveCounted ==
    /\ handleSave
    /\ requests' # requests => used.save < MaxNodeSaves
    /\ used' = [used EXCEPT !.save = IF requests' # requests THEN @ + 1 ELSE @]

\* a mutation of the data service that succeeds without a reload leaves the
\* local snapshot unreloaded
Mutation(A, ok) ==
    /\ A
    /\ unreloaded' = (unreloaded \/ ok)
    /\ UNCHANGED <<nodeModal, requests, serverNodes>>
    /\ UNCHANGED pageVars
    /\ UNCHANGED used
    /\ UNCHANGED filterVars

----------------------------------------------------------------------------
(* Specifications *)

\* the viewport: every zoom control, the pan, and the scenario commands that move it
\* (played on the scenario whose path nodes all have a position)
NextZoom ==
    \/ mounted /\ \E deltaY \in {-1, 1} : Free(handleWheel(deltaY))
    \/ mounted /\ Free(ZoomInButton)
    \/ mounted /\ Free(ZoomOutButton)
    \/ mounted /\ Free(HomeButton)
    \/ mounted /\ \E p \in Points : MouseDownCounted([node |-> "", tag |-> "svg"], p)
    \/ mounted /\ \E p \in Points : Free(handleMouseMove(p))
    \/ mounted /\ Free(handleMouseUp)
    \/ mounted /\ \E sc \in {j \in scenarioJourneys : Len(j.path) = 2} : Free(SelectScenario(sc))
    \/ mounted /\ Free(startAnimation)
    \/ mounted /\ Free(resetView)
    \/ mounted /\ Free(Tick)
    \/ mounted /\ Free(AnimationFrame)

SpecZoom == InitOrigin /\ [][NextZoom]_vars

\* the scenario player with the viewport it moves and the node selection
NextView ==
    \/ mounted /\ \E deltaY \in {-1, 1} : ZoomCounted(handleWheel(deltaY))
    \/ mounted /\ ZoomCounted(ZoomInButton)
    \/ mounted /\ ZoomCounted(ZoomOutButton)
    \/ mounted /\ Free(HomeButton)
    \/ mounted /\ \E n \in NodeIds : Free(ClickNode(n))
    \/ mounted /\ Free(ClickCanvas)
    \/ mounted /\ \E sc \in scenarioJourneys : Free(SelectScenario(sc))
    \/ mounted /\ Free(startAnimation)
    \/ mounted /\ Free(stopAnimation)
    \/ mounted /\ Free(ResetButton)
    \/ mounted /\ Free(resetView)
    \/ mounted /\ Free(Tick)
    \/ mounted /\ Free(AnimationFrame)
    \/ Free(Unmount)

SpecView == Init /\ [][NextView]_vars

\* a scenario is chosen and played, and then only the timer and the frames run
Setup == lastCmd.op # "play"

TickStep == mounted /\ Free(Tick)
FrameStep == mounted /\ Free(AnimationFrame)

NextRun ==
    \/ mounted /\ Setup /\ \E deltaY \in {-1, 1} : ZoomCounted(handleWheel(deltaY))
    \/ mounted /\ Setup /\ ZoomCounted(ZoomInButton)
    \/ mounted /\ Setup /\ ZoomCounted(ZoomOutButton)
    \/ mounted /\ Setup /\ \E n \in NodeIds : Free(ClickNode(n))
    \/ mounted /\ Setup /\ \E sc \in scenarioJourneys : Free(SelectScenario(sc))
    \/ mounted /\ Setup /\ Free(startAnimation)
    \/ TickStep
    \/ FrameStep

\* the interval fires every 1500 ms and the browser keeps running frames
SpecRun == Init /\ [][NextRun]_vars /\ WF_vars(TickStep) /\ WF_vars(FrameStep)

\* the same run over the journeys the server may return
NextFlow ==
    \/ mounted /\ Setup /\ \E deltaY \in {-1, 1} : ZoomCounted(handleWheel(deltaY))
    \/ mounted /\ Setup /\ \E n \in NodeIds : Free(ClickNode(n))
    \/ mounted /\ Setup /\ \E sc \in FlowJourneys : Free(SelectScenario(sc))
    \/ mounted /\ Setup /\ Free(startAnimation)
    \/ TickStep
    \/ FrameStep

SpecFlow == Init /\ [][NextFlow]_vars

\* the scenario player over the journeys of the snapshot, with the deletion of
\* journeys and the reload that follows it
NextPlayer ==
    \/ mounted /\ Page /\ \E sc \in journeys : Free(SelectScenario(sc))
    \/ mounted /\ Page /\ Free(startAnimation)
    \/ mounted /\ Page /\ Free(stopAnimation)
    \/ mounted /\ Page /\ Free(ResetButton)
    \/ mounted /\ Page /\ Free(resetView)
    \/ mounted /\ Page /\ \E j \in journeys : handleDeleteJourney(j.id)
    \/ mounted /\ \E i \in DOMAIN deletes, ok \in BOOLEAN : DeleteJourneyResponse(i, ok)
    \/ mounted /\ \E failed \in {{}, {"journeys"}} : LoadResponse(failed, Modules, LoadedRelColors)
    \/ mounted /\ loadData
    \/ mounted /\ Free(Tick)
    \/ mounted /\ Free(AnimationFrame)

SpecPlayer == InitPlayer /\ [][NextPlayer]_vars

\* the reload of the snapshot: at mount, by Retry, and after the deletion of a
\* journey, while a node is moved and a scenario is selected
FailedFetches == {{}, Fetches} \cup {{f} : f \in Fetches}

NextLoad ==
    \/ mounted /\ \E failed \in FailedFetches, mods \in ServerModules, cols \in ServerRelColors :
                      LoadResponse(failed, mods, cols)
    \/ mounted /\ loadData
    \/ mounted /\ Page /\ \E sc \in journeys : Len(sc.path) = 2 /\ Free(SelectScenario(sc))
    \/ mounted /\ Page /\ \E j \in journeys : handleDeleteJourney(j.id)
    \/ mounted /\ \E i \in DOMAIN deletes, ok \in BOOLEAN : DeleteJourneyResponse(i, ok)
    \/ mounted /\ Page /\ Free(ClickNode("A"))
    \/ mounted /\ Page /\ Free(startEditPosition)
    \/ mounted /\ Page /\ \E t \in Targets, p \in Points : StartsNodeDrag(t) /\ MouseDownCounted(t, p)
    \/ mounted /\ Page /\ \E p \in Points : Free(handleMouseMove(p))

SpecLoad == InitMount /\ [][NextLoad]_vars

\* the scenario player with the node selection and the pointer over the nodes
NextSelect ==
    \/ mounted /\ \E sc \in scenarioJourneys : Free(SelectScenario(sc))
    \/ mounted /\ Free(startAnimation)
    \/ mounted /\ Free(stopAnimation)
    \/ mounted /\ Free(ResetButton)
    \/ mounted /\ Free(resetView)
    \/ mounted /\ Free(Tick)
    \/ mounted /\ Free(AnimationFrame)
    \/ mounted /\ \E n \in NodeIds : Free(ClickNode(n))
    \/ mounted /\ Free(ClickCanvas)
    \/ mounted /\ \E n \in NodeIds : HoverNode(n)
    \/ mounted /\ UnhoverNode

SpecSelect == Init /\ [][NextSelect]_vars

\* the scenario player while a node is moved: every dependency of the animation
\* effect changes, the positions map too
NextTicker ==
    \/ mounted /\ \E sc \in {j \in scenarioJourneys : Len(j.path) = 2} : Free(SelectScenario(sc))
    \/ mounted /\ Free(startAnimation)
    \/ mounted /\ Free(stopAnimation)
    \/ mounted /\ Free(resetView)
    \/ mounted /\ Free(Tick)
    \/ mounted /\ Free(AnimationFrame)
    \/ mounted /\ Free(ClickNode("A"))
    \/ mounted /\ Free(startEditPosition)
    \/ mounted /\ Free(cancelEditPosition)
    \/ mounted /\ \E t \in Targets, p \in Points : StartsNodeDrag(t) /\ MouseDownCounted(t, p)
    \/ mounted /\ \E p \in Points : Free(handleMouseMove(p))
    \/ mounted /\ Free(handleMouseUp)
    \/ Free(Unmount)

SpecTicker == Init /\ [][NextTicker]_vars

\* the position-edit controller with the data service: the pointer goes down on
\* the node under edit only
NextDrag ==
    \/ mounted /\ \E t \in Targets, p \in Points : StartsNodeDrag(t) /\ MouseDownCounted(t, p)
    \/ mounted /\ \E p \in Points : Free(handleMouseMove(p))
    \/ mounted /\ Free(handleMouseUp)
    \/ mounted /\ \E n \in NodeIds : Free(ClickNode(n))
    \/ mounted /\ Free(startEditPosition)
    \/ mounted /\ Free(cancelEditPosition)
    \/ mounted /\ Free(saveEditPosition)
    \/ mounted /\ \E i \in 1..MaxInflight, ok \in BOOLEAN : Free(SaveResponse(i, ok))

SpecDrag == InitZoomed /\ [][NextDrag]_vars

\* position editing of the nodes chosen on the canvas or in the node list
NextEdit ==
    \/ mounted /\ \E t \in Targets, p \in Points : StartsNodeDrag(t) /\ MouseDownCounted(t, p)
    \/ mounted /\ \E p \in Points : Free(handleMouseMove(p))
    \/ mounted /\ Free(handleMouseUp)
    \/ mounted /\ \E n \in NodeIds : Free(ClickNode(n))
    \/ mounted /\ \E n \in NodeIds : Free(ViewNode(n))
    \/ mounted /\ Free(startEditPosition)
    \/ mounted /\ Free(cancelEditPosition)
    \/ mounted /\ Free(saveEditPosition)
    \/ mounted /\ \E i \in 1..MaxInflight, ok \in BOOLEAN : Free(SaveResponse(i, ok))

SpecEdit == Init /\ [][NextEdit]_vars


\* the pointer on the canvas and on the nodes: canvas pan against position edit
NextPan ==
    \/ mounted /\ \E t \in Targets, p \in Points : MouseDownCounted(t, p)
    \/ mounted /\ \E p \in Points : Free(handleMouseMove(p))
    \/ mounted /\ Free(handleMouseUp)
    \/ mounted /\ \E n \in NodeIds : Free(ClickNode(n))
    \/ mounted /\ Free(ClickCanvas)
    \/ mounted /\ Free(startEditPosition)
    \/ mounted /\ Free(cancelEditPosition)

SpecPan == Init /\ [][NextPan]_vars

\* position edit with the pointer going down on the empty canvas background only
NextCanvas ==
    \/ mounted /\ \E p \in Points : MouseDownCounted([node |-> "", tag |-> "svg"], p)
    \/ mounted /\ \E p \in Points : Free(handleMouseMove(p))
    \/ mounted /\ Free(handleMouseUp)
    \/ mounted /\ \E n \in NodeIds : Free(ClickNode(n))
    \/ mounted /\ Free(startEditPosition)
    \/ mounted /\ Free(cancelEditPosition)

SpecCanvas == Init /\ [][NextCanvas]_vars

\* the explorer filters over several snapshots, with the node selection and the
\* scenario selection changing beside them
NextFilter ==
    \/ mounted /\ \E t \in Terms : SetSearchTerm(t)
    \/ mounted /\ \E m \in Modules : SetSelectedModule(m)
    \/ mounted /\ \E checked \in BOOLEAN : SetShowRelationships(checked)
    \/ mounted /\ \E n \in NodeIds : Free(ClickNode(n))
    \/ mounted /\ Free(ClickCanvas)
    \/ mounted /\ \E sc \in scenarioJourneys : Free(SelectScenario(sc))

SpecFilter == InitFilter /\ [][NextFilter]_vars

\* the node form, the node requests and the position save
NextCrud ==
    \/ mounted /\ OpenNodeForm("add", "")
    \/ mounted /\ \E n \in NodeIds : OpenNodeForm("edit", n)
    \/ mounted /\ \E v \in TypedIds : SetFormId(v)
    \/ mounted /\ handleModuleChange("m2")
    \/ mounted /\ CloseNodeForm
    \/ mounted /\ FormSaveCounted
    \/ mounted /\ \E i \in 1..MaxNodeRequests, ok \in BOOLEAN : NodeResponse(i, ok)
    \/ mounted /\ Free(ClickNode("A"))
    \/ mounted /\ Free(startEditPosition)
    \/ mounted /\ Free(saveEditPosition)
    \/ mounted /\ \E i \in 1..MaxInflight, ok \in BOOLEAN : Mutation(SaveResponse(i, ok), ok)

\* the snapshot without node C
InitCrud ==
    InitGraph(LoadedPositions, DefaultScale, [n \in {"A", "B"} |-> LoadedNodes[n]],
              LoadedRelationships)

SpecCrud == InitCrud /\ [][NextCrud]_vars

\* the same controls over the snapshots of the canvas
SpecDraw == InitDraw /\ [][NextFilter]_vars

----------------------------------------------------------------------------
(* Claims *)

ScenarioById(i) == CHOOSE sc \in scenarioJourneys : sc.id = i

Idle == editingPositionNode = None /\ editingPositionOriginal = None /\ nodeDragStart = None

\* C1: in every reachable state, after any sequence of wheel zooms, zoom buttons,
\* view resets, pans and scenario play/ticks/exits, 0.15 <= scale <= 2.0.
C1_ScaleClamped == MinScale <= transform.scale /\ transform.scale <= MaxScale

\* the view zoomed to the upper limit while a scenario has been played and has ticked
C1_Witness == transform.scale = MaxScale /\ lastCmd.op = "play" /\ ticks >= 1

\* C2: play() on a scenario with a path of N >= 1 nodes followed by ticks alone: after
\* k < N ticks the player is still running, the N-th tick makes it Finished
\* (stepIndex = N-1, running = false, no ticker), there is no further tick, and with
\* the timer firing Finished is eventually reached.
C2_PathLen == Len(The(activeScenario).path)

C2_Finished ==
    /\ lastCmd.op = "play"
    /\ ticks = C2_PathLen
    /\ animationStep = C2_PathLen - 1
    /\ ~isAnimating
    /\ ticker = None

C2_RunState ==
    (lastCmd.op = "play" /\ C2_PathLen >= 1) =>
        /\ ticks <= C2_PathLen
        /\ ticks < C2_PathLen => (isAnimating /\ ticker # None /\ animationStep = ticks)
        /\ ticks = C2_PathLen => C2_Finished

C2_Termination == [](C2_RunState) /\ ((lastCmd.op = "play") ~> C2_Finished)

\* a path of three nodes played to its end
C2_Witness == C2_Finished /\ C2_PathLen = 3

\* C3: for a node with a known position, enterPositionEdit, any drags of it at any
\* scale, then cancelPositionEdit leave positions[id] equal to its value before
\* enterPositionEdit and the controller Idle.
C3_CancelRestores ==
    (lastCmd.op = "cancel" /\ lastSys = "none" /\ session.pre # None) =>
        /\ session.node \in DOMAIN positions
        /\ positions[session.node] = The(session.pre)
        /\ Idle

\* a cancel after the node was dragged away, at a scale other than the default
C3_Witness ==
    /\ lastCmd.op = "cancel" /\ lastSys = "none"
    /\ session.pre # None /\ session.moved
    /\ transform.scale # DefaultScale

\* C4: for a node with a known position, enterPositionEdit (no older save pending),
\* any drags, then commitPositionEdit whose save fails: positions[id] is its pre-edit
\* value again, an error message is shown and the controller is Idle.
C4_FailedSaveReverts ==
    (lastSys = "saveFail" /\ session.clean /\ session.phase = "failed" /\ session.pre # None) =>
        /\ session.node \in DOMAIN positions
        /\ positions[session.node] = The(session.pre)
        /\ toast # None /\ The(toast).type = "error"
        /\ Idle

\* a failed save of a node that had been dragged away
C4_Witness ==
    /\ lastSys = "saveFail" /\ session.clean /\ session.phase = "failed"
    /\ session.pre # None /\ session.moved

\* C5: no reachable state has a canvas pan session (isDragging) together with a
\* node-drag or node-reposition session.
C5_PanXorReposition ==
    ~(isDragging /\ (editingPositionNode # None \/ nodeDragStart # None))

\* C6: no ticker outlives its scenario: a live ticker belongs to the scenario that is
\* selected and running, and after select, pause, exit or unmount there is no ticker
\* and no tick.
C6_NoDanglingTicker ==
    /\ ticker # None =>
          (mounted /\ isAnimating /\ activeScenario = Some(The(ticker).scenario))
    /\ lastCmd.op \in {"select", "pause", "exit", "unmount"} => (ticker = None /\ ticks = 0)

\* a scenario selected while a recentre of an earlier tick was still waiting for its frame
C6_Witness == lastCmd.op = "select" /\ rafQueue # <<>> /\ ticker = None

\* C7: once exit() has run, nothing of an already fired tick is applied: the transform
\* stays equal to the default until the next user command.
C7_ExitIsTotal == lastCmd.op = "exit" => transform = DefaultTransform

\* C8: while a save request for node n is unresolved, pointer events do not change
\* positions[n] and no second save request for n is issued.
C8_SaveBlocksEdits ==
    /\ \A i \in DOMAIN inflight :
          (lastCmd.op = "mousemove" /\ lastSys = "none")
              => positions[inflight[i].node] = inflight[i].body
    /\ \A i, j \in DOMAIN inflight : inflight[i].node = inflight[j].node => i = j

\* C9: whenever no node is under position edit and no save is in flight, every local
\* position equals the position held by the data service.
C9_LocalEqualsRemote ==
    (editingPositionNode = None /\ inflight = <<>>) => positions = serverPositions

\* C10 as stated: select(scenario) yields Loaded and clears the node selection.
C10_SelectClearsSelection ==
    lastCmd.op = "select" =>
        /\ activeScenario = Some(ScenarioById(lastCmd.arg))
        /\ animationStep = -1
        /\ ~isAnimating
        /\ selectedNode = None

\* C10 amended: select(scenario) from any state yields Loaded (that scenario selected,
\* stepIndex = -1, running = false, no ticker) and leaves the node selection as it was.
C10_SelectLoads ==
    [][(lastCmd'.op = "select" /\ lastSys' = "none") =>
          /\ activeScenario' = Some(ScenarioById(lastCmd'.arg))
          /\ animationStep' = -1
          /\ ~isAnimating'
          /\ ticker' = None
          /\ selectedNode' = selectedNode]_vars

\* a scenario selected with a node still selected
C10_Witness ==
    /\ lastCmd.op = "select" /\ lastSys = "none"
    /\ activeScenario # None /\ animationStep = -1 /\ ~isAnimating
    /\ selectedNode # None

\* C11: pause() while Playing at stepIndex k >= 0 yields Paused: running = false, the
\* ticker cancelled, the scenario still selected and stepIndex still k.
C11_PauseKeepsStep ==
    [][(lastCmd'.op = "pause" /\ lastSys' = "none" /\ isAnimating /\ animationStep >= 0) =>
          /\ ~isAnimating'
          /\ ticker' = None
          /\ activeScenario' = activeScenario
          /\ animationStep' = animationStep]_vars

\* C12: resetStep() with a scenario selected yields stepIndex = -1 and running = false
\* with the scenario kept, and no tick advances stepIndex until play() is invoked.
C12_ResetStops ==
    lastCmd.op = "resetStep" =>
        /\ activeScenario # None
        /\ animationStep = -1
        /\ ~isAnimating

\* C13: exit() yields Idle: no scenario selected, stepIndex = -1, running = false, the
\* ticker cancelled and the transform equal to the default {x: 50, y: 50, scale: 0.45}.
C13_ExitYieldsIdle ==
    (lastCmd.op = "exit" /\ lastSys = "none") =>
        /\ activeScenario = None
        /\ animationStep = -1
        /\ ~isAnimating
        /\ ticker = None
        /\ transform = DefaultTransform

\* an exit taken while playing, with the recentre of a tick still waiting for its frame
C13_Witness == lastCmd.op = "exit" /\ lastSys = "none" /\ rafQueue # <<>>

\* C14: while a node is in position-edit mode and no pan is under way, a pointer-down
\* on the empty canvas background starts no pan session and pointer-moves leave the
\* viewport translation as it is.
C14_EditSuppressesPan ==
    [][(editingPositionNode # None /\ ~isDragging) =>
          /\ ~isDragging'
          /\ transform'.x = transform.x
          /\ transform'.y = transform.y]_vars

\* C15: zoom-anchor invariance: after a wheel zoom the world point that was under any
\* screen point p before the zoom still maps to p, i.e. (p - t) / s = (p - t') / s'
\* (stated without division), also when the new scale is clamped.
C15_ZoomAnchorKept ==
    [][(lastCmd'.op = "wheel" /\ lastSys' = "none") =>
          \A p \in Points :
              /\ (p.x - transform.x) * transform'.scale = (p.x - transform'.x) * transform.scale
              /\ (p.y - transform.y) * transform'.scale = (p.y - transform'.y) * transform.scale]_vars

\* C16: scenario playback never changes zoom: play(), every tick and every recentre a
\* tick defers to an animation frame leave transform.scale unchanged.
C16_PlaybackKeepsScale ==
    [][((lastCmd'.op = "play" /\ lastSys' = "none") \/ lastSys' \in {"tick", "frame"}) =>
          transform'.scale = transform.scale]_vars

\* a deferred recentre applied while the view is zoomed away from the default scale
C16_Witness ==
    /\ lastSys = "frame"
    /\ transform.scale # DefaultScale
    /\ transform.x # DefaultX

C20_Played == lastCmd.op = "play" /\ activeScenario = Some(Scenario("S4", <<"A", "B", "C">>))

\* C20 as stated: after play() and 2 ticks, stepIndex = 1, C is current, edge (B,C) is
\* active, A is visited and the state is Finished.
C20_TwoTicksFinished ==
    (C20_Played /\ ticks = 2) =>
        /\ animationStep = 1
        /\ isNodeCurrent("C")
        /\ isEdgeActive("B", "C")
        /\ isNodeVisited("A")
        /\ ~isAnimating

\* C20 amended: after play() and 1 tick, stepIndex = 1, B is current, edge (B,C) is
\* active and A is visited; after 2 ticks, stepIndex = 2, C is current, A and B are
\* visited, no edge is active and the player is still running; the 3rd tick makes it
\* Finished with stepIndex = 2.
C20_ThreeTicksFinish ==
    /\ (C20_Played /\ ticks = 1) =>
          /\ animationStep = 1 /\ isAnimating
          /\ isNodeCurrent("B") /\ ~isNodeCurrent("C")
          /\ isEdgeActive("B", "C")
          /\ isNodeVisited("A") /\ ~isNodeVisited("B")
    /\ (C20_Played /\ ticks = 2) =>
          /\ animationStep = 2 /\ isAnimating
          /\ isNodeCurrent("C") /\ ~isNodeCurrent("B")
          /\ ~isEdgeActive("B", "C") /\ ~isEdgeActive("A", "B")
          /\ isNodeVisited("A") /\ isNodeVisited("B") /\ ~isNodeVisited("C")
    /\ (C20_Played /\ ticks = 3) =>
          /\ animationStep = 2 /\ ~isAnimating /\ ticker = None
          /\ isNodeCurrent("C")
    /\ C20_Played => ticks <= 3

\* two ticks after play() of that scenario
C20_Witness == C20_Played /\ ticks = 2 /\ lastSys = "tick"

\* C17: visibleEdges is exactly the set of edges whose from and to are both ids of
\* visible nodes when showRelationships is true and is empty when it is false; an edge
\* with an unknown or filtered-out endpoint is dropped.
C17_VisibleEdges ==
    /\ ~showRelationships => filteredRelationships = <<>>
    /\ showRelationships =>
          \A i \in DOMAIN relationships :
              (\E j \in DOMAIN filteredRelationships : filteredRelationships[j] = relationships[i])
              <=> (\E a, b \in filteredNodes : a.id = relationships[i].from
                                               /\ b.id = relationships[i].to)
    /\ \A j \in DOMAIN filteredRelationships :
          \E i \in DOMAIN relationships : relationships[i] = filteredRelationships[j]

\* module m1 selected on the full snapshot: the edges at the filtered-out node B and the
\* edge to the unknown node Z are dropped, the edge C-A is kept
C17_Witness ==
    /\ showRelationships
    /\ relationships = LoadedRelationships
    /\ DOMAIN nodes = NodeIds
    /\ selectedModule = "m1"
    /\ filteredRelationships = <<Rel("C", "A")>>

\* two characters that differ at most in case
C18_SameLetter(a, b) ==
    \/ a = b
    \/ \E pair \in {<<"a", "A">>, <<"b", "B">>, <<"c", "C">>, <<"x", "X">>, <<"z", "Z">>} :
          {a, b} = {pair[1], pair[2]}

C18_Contains(str, part) ==
    \E off \in 0..(Len(str) - Len(part)) :
        \A j \in 1..Len(part) : C18_SameLetter(str[off + j], part[j])

C18_Visible(node) ==
    /\ selectedModule = "all" \/ node.module = selectedModule
    /\ \/ searchTerm = <<>>
       \/ C18_Contains(IdText(node.id), searchTerm)
       \/ node.definition # None /\ C18_Contains(The(node.definition), searchTerm)

\* C18: a node is in visibleNodes iff (selectedModule = 'all' or its module is the
\* selected one) and (searchTerm is empty or its id or its definition contains the
\* searchTerm case-insensitively); the result changes only with nodes, selectedModule
\* and searchTerm.
C18_VisibleNodes ==
    /\ [](/\ \A k \in DOMAIN nodes : (nodes[k] \in filteredNodes) <=> C18_Visible(nodes[k])
          /\ \A node \in filteredNodes : \E k \in DOMAIN nodes : nodes[k] = node)
    /\ [][(nodes' = nodes /\ selectedModule' = selectedModule /\ searchTerm' = searchTerm)
             => filteredNodes' = filteredNodes]_vars

\* a search that matches node A only through its definition and only when case is
\* ignored, with module m1 selected and a node selected
C18_Witness ==
    /\ searchTerm = <<"X", "b">>
    /\ selectedModule = "m1"
    /\ DOMAIN nodes = NodeIds
    /\ selectedNode # None
    /\ filteredNodes = {LoadedNodes["A"]}

\* C21: isNodeCurrent(id) is true for at most one node id, also when the path repeats
\* a node, and for no id when stepIndex = -1 or no scenario is selected.
C21_OneCurrentNode ==
    /\ \A a, b \in NodeIds \cup {"Z"} : (isNodeCurrent(a) /\ isNodeCurrent(b)) => a = b
    /\ (activeScenario = None \/ animationStep = -1) =>
          \A a \in NodeIds \cup {"Z"} : ~isNodeCurrent(a)

\* the path B,C,B at its last step: B is current for the second time, C is not
C21_Witness ==
    /\ activeScenario = Some(Scenario("S2", <<"B", "C", "B">>))
    /\ animationStep = 2
    /\ isNodeCurrent("B") /\ ~isNodeCurrent("C")

\* C23: when the path node that a tick, or the play command, makes current has
\* no known position, that step leaves the transform alone and requests no
\* frame, and the step index still advances: to 0 on play, by one on a tick
\* that is not past the end of the path
C23_UnpositionedStepSkipsRecentre ==
    [][/\ (ticks' = ticks + 1 /\ activeScenario # None
           /\ animationStep < Len(The(activeScenario).path) - 1)
          => /\ animationStep' = animationStep + 1
             /\ transform' = transform
             /\ (The(activeScenario).path[animationStep + 2] \notin DOMAIN positions
                   => rafQueue' = rafQueue)
       /\ (lastCmd'.op = "play" /\ lastCmd.op # "play" /\ activeScenario # None)
          => /\ animationStep' = 0
             /\ isAnimating'
             /\ (The(activeScenario).path[1] \notin DOMAIN positions
                   => transform' = transform)
      ]_vars

C23_Witness ==
    /\ lastSys = "tick"
    /\ activeScenario = Some(Scenario("S4", <<"A", "B", "C">>))
    /\ animationStep = 2
    /\ isAnimating
    /\ "C" \notin DOMAIN positions
    /\ rafQueue = <<>>

\* C24: with a dataFlow list that is missing, shorter or longer than the path,
\* or numbered differently, the annotation is the first entry whose step is the
\* step index plus one and is absent when there is none, and a played journey
\* steps and stops by its path alone: after k ticks the step index is
\* min(k, N - 1) and it is running iff k < N
C24_Annotation ==
    /\ \A df \in currentDataFlow :
          /\ df.step = animationStep + 1
          /\ "dataFlow" \in DOMAIN The(activeScenario)
          /\ \E i \in DOMAIN The(activeScenario).dataFlow :
                /\ The(activeScenario).dataFlow[i] = df
                /\ \A j \in 1..(i - 1) :
                      The(activeScenario).dataFlow[j].step # animationStep + 1
    /\ (currentDataFlow = None /\ activeScenario # None
          /\ "dataFlow" \in DOMAIN The(activeScenario))
          => \/ animationStep < 0
             \/ \A i \in DOMAIN The(activeScenario).dataFlow :
                   The(activeScenario).dataFlow[i].step # animationStep + 1

C25_ConnectedIffVisibleEdge ==
    \A node \in filteredNodes :
        isConnected(node.id) <=>
            /\ selectedNode # None
            /\ \E i \in DOMAIN filteredRelationships :
                  LET rel == filteredRelationships[i]
                  IN \/ rel.from = The(selectedNode) /\ rel.to = node.id
                     \/ rel.to = The(selectedNode) /\ rel.from = node.id

\* the selections a state can carry: none, or any node id
Selections == {None} \cup {Some(n) : n \in NodeIds}

\* C26: while a scenario is active the opacity of every node and of every edge
\* is the same under every node selection, so two states that differ only in
\* the selected node are drawn with identical opacities
C26_ScenarioOverridesSelection ==
    activeScenario # None =>
        \A sel \in Selections :
            /\ \A n \in NodeIds : nodeOpacity(sel, n) = nodeOpacity(selectedNode, n)
            /\ \A i \in DOMAIN relationships :
                  edgeOpacity(sel, relationships[i]) = edgeOpacity(selectedNode, relationships[i])

C26_Witness ==
    /\ activeScenario = Some(Scenario("S3", <<"A">>))
    /\ selectedNode = Some("A")
    /\ isConnected("B")
    /\ nodeOpacity(selectedNode, "B") = 20
    /\ nodeOpacity(None, "B") = 20
    /\ edgeOpacity(selectedNode, Rel("A", "B")) = 15

\* a drawn shape whose every coordinate is a number
WellDefined(shape) ==
    /\ shape.startX # NaN /\ shape.startY # NaN
    /\ shape.endX # NaN /\ shape.endY # NaN
    /\ shape.ctrlX # NaN /\ shape.ctrlY # NaN

\* the offset (k - (N - 1) / 2) * 20 of the k-th of the N visible relationships
\* between the endpoints of relationship i, counted in list order from 0
SymmetricOffset(i) ==
    LET rel == filteredRelationships[i]
        same == {j \in DOMAIN filteredRelationships :
                    {filteredRelationships[j].from, filteredRelationships[j].to}
                        = {rel.from, rel.to}}
        k == Cardinality({j \in same : j < i})
    IN (2 * k - (Cardinality(same) - 1)) * 10

\* C22: every drawn relationship, the k-th of the N visible ones between its two
\* nodes, is displaced sideways by (k - (N - 1) / 2) * 20, on the application
\* canvas and in SchemaGraph, so that a group's offsets are symmetric around 0
C22_ParallelOffsets ==
    /\ \A i \in drawnEdges : edgeLine(i).offset = SymmetricOffset(i)
    /\ \A i \in templateDrawnEdges : templateEdgePath(i).offset = SymmetricOffset(i)

\* C27: every drawn relationship whose two nodes are at the same position has
\* well-defined start, end and control points, on the application canvas and in
\* SchemaGraph
C27_CoincidentEndpoints ==
    /\ \A i \in drawnEdges :
          positions[filteredRelationships[i].from] = positions[filteredRelationships[i].to]
            => WellDefined(edgeLine(i))
    /\ \A i \in templateDrawnEdges :
          nodePositions[filteredRelationships[i].from] = nodePositions[filteredRelationships[i].to]
            => WellDefined(templateEdgePath(i))

\* C28 (as stated): in both components a node with no position entry is never
\* drawn, and neither is a relationship with such an endpoint
C28_NoEntryNeverDrawn ==
    /\ drawnNodes \subseteq DOMAIN positions
    /\ templateDrawnNodes \subseteq DOMAIN positions
    /\ \A i \in drawnEdges \cup templateDrawnEdges :
          /\ filteredRelationships[i].from \in DOMAIN positions
          /\ filteredRelationships[i].to \in DOMAIN positions

\* C28 (amended): the application canvas never draws a node without a position
\* entry nor a relationship with such an endpoint; SchemaGraph draws every
\* visible node and relationship, a node without an entry at the grid slot
\* that nodePositions gives it and a node with an entry at that entry
C28_SkipOrDefault ==
    /\ drawnNodes = {node.id : node \in filteredNodes} \cap DOMAIN positions
    /\ \A i \in drawnEdges :
          /\ filteredRelationships[i].from \in drawnNodes
          /\ filteredRelationships[i].to \in drawnNodes
    /\ templateDrawnNodes = {node.id : node \in filteredNodes}
    /\ templateDrawnEdges = DOMAIN filteredRelationships
    /\ DOMAIN nodePositions = DOMAIN positions \cup DOMAIN nodes
    /\ \A n \in DOMAIN positions : nodePositions[n] = positions[n]
    /\ \A n \in DOMAIN nodes \ DOMAIN positions :
          /\ nodePositions[n].x \in {DEFAULT_CENTER.x + 150 * k : k \in 0..6}
          /\ nodePositions[n].y >= DEFAULT_CENTER.y

C28_Witness ==
    /\ searchTerm = <<"a">>
    /\ "C" \in DOMAIN nodes
    /\ "C" \notin DOMAIN positions
    /\ \E node \in filteredNodes : node.id = "C"
    /\ "C" \notin drawnNodes
    /\ "C" \in templateDrawnNodes
    /\ nodePositions["C"] = DEFAULT_CENTER
    /\ \E i \in DOMAIN filteredRelationships :
          filteredRelationships[i].from = "C" /\ i \notin drawnEdges

\* C29: every successful mutation of the data service, a committed position
\* save included, is followed by a full reload of the snapshot: once the handler
\* of a successful mutation has run, no mutation is left without its reload
C29_ReloadAfterMutation == ~unreloaded

\* C30: an update sent from the node form is addressed to the id of the node
\* the form was opened for, whatever was typed into the form, and no create
\* request is sent for an id that already exists
C30_NodeIdImmutable ==
    \A i \in DOMAIN requests :
        /\ requests[i].method = "PUT" => requests[i].id = requests[i].target
        /\ requests[i].method = "POST" => ~requests[i].existed

\* C31: while a position-edit session is active for node n, the remembered
\* original is the position n had when the session was entered (none when n had
\* no position), also when the session was entered while another one was active
C31_OriginalIsPreEdit ==
    (editingPositionNode # None /\ session.phase = "editing"
        /\ session.node = The(editingPositionNode))
      => editingPositionOriginal = session.pre

\* C32: while a node n is dragged from the anchor (pointer0, position0), every
\* pointer move to a point p puts n at position0 + (p - pointer0) / scale, with
\* the scale of that moment, and changes neither the transform nor the position
\* of any other node
C32_DragFollowsPointer ==
    [][(lastCmd'.op = "mousemove" /\ lastSys' = "none"
         /\ nodeDragStart # None /\ editingPositionNode # None)
        => LET n == The(editingPositionNode)
               anchor == The(nodeDragStart)
           IN /\ \E p \in Points :
                    /\ positions'[n].x * 100
                         = anchor.nodeX * 100 + ((p.x - anchor.mouseX) * 100 * 100) \div transform.scale
                    /\ positions'[n].y * 100
                         = anchor.nodeY * 100 + ((p.y - anchor.mouseY) * 100 * 100) \div transform.scale
              /\ DOMAIN positions' = DOMAIN positions \cup {n}
              /\ \A m \in DOMAIN positions \ {n} : positions'[m] = positions[m]
              /\ transform' = transform
              /\ nodeDragStart' = nodeDragStart
      ]_vars

\* a drag at the largest scale that has moved the node
C32_Witness ==
    /\ lastCmd.op = "mousemove" /\ lastSys = "none"
    /\ nodeDragStart # None /\ editingPositionNode # None
    /\ session.moved
    /\ transform.scale = MaxScale
    /\ positions[The(editingPositionNode)].x = The(nodeDragStart).nodeX + 90

\* C33: a position save is sent only by the commit command: entering the edit,
\* pointer-down, -move and -up on the edited node and cancel send no request
\* and leave the positions of the service alone, and the pointer-up that ends a
\* node drag leaves the node under edit, with its dragged position kept
C33_SaveOnlyOnCommit ==
    [][/\ inflight' # inflight =>
             \/ lastCmd'.op = "commit" /\ lastSys' = "none"
                   /\ Len(inflight') = Len(inflight) + 1
             \/ lastSys' \in {"saveOk", "saveFail"} /\ Len(inflight') = Len(inflight) - 1
       /\ serverPositions' # serverPositions => lastSys' = "saveOk"
       /\ (nodeDragStart # None /\ nodeDragStart' = None
             /\ lastCmd'.op = "other" /\ lastSys' = "none")
            => /\ editingPositionNode' = editingPositionNode
               /\ editingPositionNode' # None
               /\ editingPositionOriginal' = editingPositionOriginal
               /\ positions' = positions
      ]_vars

\* a node dragged away and dropped: still under edit, nothing sent, the service
\* still holds the old position
C33_Witness ==
    /\ lastCmd.op = "other" /\ lastSys = "none"
    /\ nodeDragStart = None
    /\ editingPositionNode # None
    /\ session.phase = "editing" /\ session.moved /\ session.clean
    /\ inflight = <<>>
    /\ serverPositions[The(editingPositionNode)] # positions[The(editingPositionNode)]

\* C34: in every reachable state with a scenario selected, the step index lies
\* between -1 and path.length - 1, for every path, the empty one included
C34_StepInRange ==
    activeScenario # None =>
        /\ -1 <= animationStep
        /\ animationStep <= Len(The(activeScenario).path) - 1

\* C35: whenever no scenario is selected, the step index is -1 and the player
\* is not running, also after the active journey was deleted while it played
C35_IdleIsReset == activeScenario = None => (animationStep = -1 /\ ~isAnimating)

\* C36: the interval of the animation effect is live only while the player runs
\* with a scenario selected, it is the one created for the current running flag,
\* scenario and positions map, and every change of one of the three cancels the
\* interval that was live before: what is live afterwards was created afresh
FreshTicker == Some([scenario |-> The(activeScenario), positions |-> positions])

C36_OneTickerPerDeps ==
    /\ [](ticker # None => (mounted /\ isAnimating /\ activeScenario # None
                              /\ ticker = FreshTicker))
    /\ [][Deps' # Deps => (ticker' = None \/ (activeScenario' # None /\ ticker' = FreshTicker'))]_vars

C36_Witness ==
    /\ lastCmd.op = "mousemove"
    /\ ticker # None
    /\ The(ticker).positions # LoadedPositions
    /\ animationStep = 1

\* C37: a pointer-down, pointer-move or pointer-up changes the position of no
\* node but the one under position edit, and a pointer-down on a node that is
\* not under edit starts no node drag: a node drag that starts has the node
\* under edit as its target and that node's position as its anchor
PointerStep == lastSys' = "none" /\ lastCmd'.op \in {"mousedown", "mousemove", "other"}

C37_OnlyEditedNodeMoves ==
    [][PointerStep =>
        /\ \A m \in DOMAIN positions \cup DOMAIN positions' :
              Some(m) # editingPositionNode =>
                 (m \in DOMAIN positions /\ m \in DOMAIN positions'
                    /\ positions'[m] = positions[m])
        /\ (lastCmd'.op = "mousedown" /\ Some(lastCmd'.arg) # editingPositionNode)
              => nodeDragStart' = nodeDragStart
        /\ (nodeDragStart' # None /\ nodeDragStart' # nodeDragStart)
              => /\ editingPositionNode = Some(lastCmd'.arg)
                 /\ The(nodeDragStart').nodeX = positions[lastCmd'.arg].x
                 /\ The(nodeDragStart').nodeY = positions[lastCmd'.arg].y
      ]_vars

\* the pointer went down on node B while node A is under edit and was dragged
C37_Witness ==
    /\ lastCmd = [op |-> "mousedown", arg |-> "B"] /\ lastSys = "none"
    /\ editingPositionNode = Some("A")
    /\ positions["A"] # LoadedPositions["A"]
    /\ nodeDragStart = None

\* C38: a reload in which one of the six requests fails replaces none of the
\* local nodes, relationships, positions, journeys, modules and colours, records
\* the error in apiError and ends the loading
C38_ReloadAllOrNothing ==
    [][(loading /\ lastSys' = "loadFail") =>
          /\ nodes' = nodes
          /\ relationships' = relationships
          /\ positions' = positions
          /\ journeys' = journeys
          /\ defaultModules' = defaultModules
          /\ relColors' = relColors
          /\ activeScenario' = activeScenario
          /\ apiError' # None
          /\ ~loading'
      ]_vars

\* a reload failed after a journey was deleted and a node was moved: the local
\* snapshot is the one of before and differs from what the service holds
C38_Witness ==
    /\ lastSys = "loadFail"
    /\ apiError # None /\ ~loading
    /\ journeys # {} /\ journeys # serverJourneys
    /\ positions # serverPositions /\ DOMAIN nodes = NodeIds

\* C39: while a scenario is active, a click on a node, the pointer entering or
\* leaving a node, and a click on the empty canvas leave the scenario, the step
\* index, the running flag and the ticker unchanged; the node click selects the
\* node and the canvas click clears the selection
C39_SelectionLeavesPlayer ==
    [][(activeScenario # None /\ lastSys' = "none"
          /\ lastCmd'.op \in {"other", "hover", "unhover", "clickCanvas"}) =>
          /\ activeScenario' = activeScenario
          /\ animationStep' = animationStep
          /\ isAnimating' = isAnimating
          /\ ticker' = ticker
          /\ lastCmd'.op = "other" => selectedNode' # None
          /\ lastCmd'.op = "clickCanvas" => selectedNode' = None
          /\ lastCmd'.op = "hover" => hoveredNode' # None
          /\ lastCmd'.op = "unhover" => hoveredNode' = None
      ]_vars

\* a node is selected and another one hovered while the scenario plays
C39_Witness ==
    /\ lastCmd.op = "hover" /\ lastSys = "none"
    /\ isAnimating /\ ticker # None /\ animationStep = 1
    /\ selectedNode = Some("B") /\ hoveredNode = Some("A")

\* C40: for every pair (a, b) and every node id: isEdgeActive(a, b) holds iff
\* 0 <= stepIndex < path.length - 1 and {a, b} is the pair of path[stepIndex] and
\* path[stepIndex + 1]; isEdgeInPath(a, b) holds iff some consecutive pair of the
\* path is {a, b}; isNodeVisited(id) holds iff stepIndex >= 0 and the first
\* occurrence of id in the path lies before stepIndex
QueryIds == NodeIds \cup {"Z"}

C40_PathQueries ==
    LET path == The(activeScenario).path
        \* path[k] of the source is path[k + 1] of the sequence
        At(k) == path[k + 1]
    IN /\ \A a \in QueryIds, b \in QueryIds :
             /\ isEdgeActive(a, b) <=>
                   (/\ activeScenario # None
                    /\ 0 <= animationStep /\ animationStep < Len(path) - 1
                    /\ {a, b} = {At(animationStep), At(animationStep + 1)})
             /\ isEdgeInPath(a, b) <=>
                   (/\ activeScenario # None
                    /\ \E k \in 0..(Len(path) - 2) : {a, b} = {At(k), At(k + 1)})
       /\ \A id \in QueryIds :
             isNodeVisited(id) <=>
                (/\ activeScenario # None
                 /\ animationStep >= 0
                 /\ \E k \in 0..(Len(path) - 1) :
                       /\ At(k) = id
                       /\ \A j \in 0..(k - 1) : At(j) # id
                       /\ k < animationStep)

\* the path B, C, B at its second step: the active edge is taken against its
\* direction, and B counts as visited by its first occurrence
C40_Witness ==
    /\ activeScenario # None
    /\ The(activeScenario).path = <<"B", "C", "B">>
    /\ animationStep = 1
    /\ isEdgeActive("B", "C") /\ isEdgeActive("C", "B")
    /\ isNodeVisited("B") /\ ~isNodeVisited("C")
    /\ isEdgeInPath("C", "B") /\ ~isEdgeInPath("A", "B")

====
